---- MODULE Spec2Model ----
(***************************************************************************)
(* Coverage tooling of the Pyre client (client/coverage_data.py):          *)
(*   - FunctionAnnotationKind.from_function_data                           *)
(*   - AnnotationCollector / AnnotationCountCollector                      *)
(*   - SuppressionCollector and the per-kind suppression count collector   *)
(*   - StrictCountCollector                                                *)
(* Each component has its own specification over the variables it owns;    *)
(* the variables of the other components stay at their initial values.     *)
(*                                                                         *)
(* Optional values are sequences: None is <<>> and a present value x is    *)
(* <<x>>.  A comment is a sequence of tokens (single characters, and the   *)
(* directive words as one token each).                                     *)
(***************************************************************************)
EXTENDS Integers, Sequences, FiniteSets, TLC

VARIABLES
    \* FunctionAnnotationKind.from_function_data: arguments, position, result
    k_method, k_ret, k_params, k_pc, k_kind,
    \* StrictCountCollector: fields, the module being visited, position,
    \* result, and the results of the earlier calls of collect on the instance
    strict_by_default, explicit_strict_comment_line,
    explicit_unsafe_comment_line, strict_count, unsafe_count,
    s_module, s_pc, s_result, s_returned,
    \* SuppressionCollector: field, comment being visited, position, and the
    \* registries of the count collectors
    suppressions, p_node, p_line, p_module, p_pc, registry,
    \* AnnotationCollector: fields, the walker's open nodes, the callback it
    \* ran last, the module's source shape, position, and collect's result
    context, globals, attributes, functions, line_count,
    a_stack, a_line, a_last, src_lines, has_trailing_newline, a_pc, data,
    \* get_paths_to_collect: arguments, the working directory, the loop's
    \* position and set, position in the call, outcome
    g_paths, g_root, g_cwd, g_i, absolute_paths, g_pc, g_result,
    \* find_module_paths: arguments, the inputs consumed so far, position,
    \* the paths yielded
    f_paths, f_excludes, f_i, f_pc, f_result,
    \* several visitors over one module: the module as it was parsed (its
    \* nodes in the order the traversal reaches them), the tree the visitors
    \* are called on, and the number of nodes each visitor has been called for
    t_parsed, t_module, t_at

kind_vars == <<k_method, k_ret, k_params, k_pc, k_kind>>
strict_vars == <<strict_by_default, explicit_strict_comment_line,
                 explicit_unsafe_comment_line, strict_count, unsafe_count,
                 s_module, s_pc, s_result, s_returned>>
supp_vars == <<suppressions, p_node, p_line, p_module, p_pc, registry>>
ann_vars == <<context, globals, attributes, functions, line_count,
              a_stack, a_line, a_last, src_lines, has_trailing_newline, a_pc, data>>
path_vars == <<g_paths, g_root, g_cwd, g_i, absolute_paths, g_pc, g_result>>
find_vars == <<f_paths, f_excludes, f_i, f_pc, f_result>>
tree_vars == <<t_parsed, t_module, t_at>>
vars == <<kind_vars, strict_vars, supp_vars, ann_vars, path_vars, find_vars, tree_vars>>

None == <<>>
Some(x) == <<x>>

----------------------------------------------------------------------------
(* Bounds *)

\* longest parameter list given to from_function_data
MaxParams == 3

\* most comments of a module visited by StrictCountCollector
MaxComments == 3

\* most comma-separated pieces written in a bracket
MaxPieces == 2

\* last line of a module visited by SuppressionCollector
MaxSuppLines == 3

\* most lines of text of a module visited by AnnotationCollector
MaxSrcLines == 3

\* most paths given to get_paths_to_collect
MaxPaths == 2

\* most paths given to find_module_paths
MaxFindPaths == 2

\* most patterns in excludes
MaxExcludes == 2

\* most modules collected by one StrictCountCollector
MaxModules == 2

----------------------------------------------------------------------------
(* Initial values of each component *)

KindIdle ==
    /\ k_method = FALSE
    /\ k_ret = FALSE
    /\ k_params = <<>>
    /\ k_pc = "idle"
    /\ k_kind = "unset"

\* StrictCountCollector.__init__ (the flag is set by the caller)
StrictFields ==
    /\ explicit_strict_comment_line = None
    /\ explicit_unsafe_comment_line = None
    /\ strict_count = 0
    /\ unsafe_count = 0

StrictIdle ==
    /\ strict_by_default = FALSE
    /\ StrictFields
    /\ s_module = <<>>
    /\ s_returned = <<>>
    /\ s_pc = "idle"
    /\ s_result = None

\* SuppressionCollector.__init__
SuppIdle ==
    /\ suppressions = <<>>
    /\ p_node = <<>>
    /\ p_line = 0
    /\ p_module = <<>>
    /\ p_pc = "idle"
    /\ registry = None

\* AnnotationContext.__init__
AnnotationContextInit ==
    [class_name_stack |-> <<>>, define_depth |-> 0, static_define_depth |-> 0]

\* AnnotationCollector.__init__
AnnFields ==
    /\ context = AnnotationContextInit
    /\ globals = <<>>
    /\ attributes = <<>>
    /\ functions = <<>>
    /\ line_count = 0

AnnIdle ==
    /\ AnnFields
    /\ a_stack = <<>>
    /\ a_line = 0
    /\ a_last = "none"
    /\ src_lines = 0
    /\ has_trailing_newline = FALSE
    /\ a_pc = "idle"
    /\ data = None

\* a path: whether it is absolute, and its components; a component is the
\* sequence of the pieces of its name ("s2", ".py")
Path(absolute, parts) == [absolute |-> absolute, parts |-> parts]

PathIdle ==
    /\ g_paths = None
    /\ g_root = Path(TRUE, <<>>)
    /\ g_cwd = Path(TRUE, <<>>)
    /\ g_i = 0
    /\ absolute_paths = <<>>
    /\ g_pc = "idle"
    /\ g_result = None

FindIdle ==
    /\ f_paths = <<>>
    /\ f_excludes = <<>>
    /\ f_i = 0
    /\ f_pc = "idle"
    /\ f_result = <<>>

Visitors == {"StrictCountCollector", "SuppressionCollector", "AnnotationCollector"}

TreeIdle ==
    /\ t_parsed = <<>>
    /\ t_module = <<>>
    /\ t_at = [v \in Visitors |-> 0]

----------------------------------------------------------------------------
(* FunctionAnnotationKind.from_function_data.  A parameter is modelled by  *)
(* whether its annotation is not None.                                     *)

BoolSeqs(n) == UNION {[1..m -> BOOLEAN] : m \in 0..n}

\* parameters[1:]
Rest(s) == SubSeq(s, 2, Len(s))

\* all(...) over a sequence of booleans
AllOf(s) == \A i \in 1..Len(s) : s[i]

\* any(...) over a sequence of booleans
AnyOf(s) == \E i \in 1..Len(s) : s[i]

\* faulty variant: the first parameter is required also for a method
from_function_data_no_exemption(is_non_static_method, is_return_annotated, parameters) ==
    IF is_return_annotated
    THEN IF AllOf(parameters) THEN "FULLY_ANNOTATED" ELSE "PARTIALLY_ANNOTATED"
    ELSE IF AnyOf(parameters) THEN "PARTIALLY_ANNOTATED" ELSE "NOT_ANNOTATED"

\* faulty variant: the first parameter of a method is exempt in the unannotated
\* return branch as well
from_function_data_symmetric(is_non_static_method, is_return_annotated, parameters) ==
    LET considered == IF is_non_static_method THEN Rest(parameters) ELSE parameters
    IN  IF is_return_annotated
        THEN IF AllOf(considered) THEN "FULLY_ANNOTATED" ELSE "PARTIALLY_ANNOTATED"
        ELSE IF AnyOf(considered) THEN "PARTIALLY_ANNOTATED" ELSE "NOT_ANNOTATED"

from_function_data(is_non_static_method, is_return_annotated, parameters) ==
    IF is_return_annotated
    THEN LET parameters_requiring_annotation ==
                 IF is_non_static_method THEN Rest(parameters) ELSE parameters
             all_parameters_annotated == AllOf(parameters_requiring_annotation)
         IN  IF all_parameters_annotated
             THEN "FULLY_ANNOTATED"
             ELSE "PARTIALLY_ANNOTATED"
    ELSE LET any_parameter_annotated == AnyOf(parameters)
         IN  IF any_parameter_annotated
             THEN "PARTIALLY_ANNOTATED"
             ELSE "NOT_ANNOTATED"

InitKind ==
    /\ k_method \in BOOLEAN
    /\ k_ret \in BOOLEAN
    /\ k_params \in BoolSeqs(MaxParams)
    /\ k_pc = "call"
    /\ k_kind = "unset"
    /\ StrictIdle /\ SuppIdle /\ AnnIdle /\ PathIdle /\ FindIdle /\ TreeIdle

CallFromFunctionData ==
    /\ k_pc = "call"
    /\ k_kind' = from_function_data(k_method, k_ret, k_params)
    /\ k_pc' = "done"
    /\ UNCHANGED <<k_method, k_ret, k_params, strict_vars, supp_vars, ann_vars, path_vars, find_vars, tree_vars>>

NextKind == CallFromFunctionData

SpecKind == InitKind /\ [][NextKind]_vars

\* parameters whose annotation the return-annotated branch requires
RequiredIndexes == {i \in 1..Len(k_params) : ~(k_method /\ i = 1)}

\* C1: with an annotated return the result is FULLY_ANNOTATED iff every
\* parameter of the required set (all but the first for a method, all
\* otherwise) is annotated, and PARTIALLY_ANNOTATED in every other case; a
\* method with no parameter, or only an unannotated first one, is
\* FULLY_ANNOTATED.
C1_ReturnAnnotated ==
    (k_pc = "done" /\ k_ret) =>
        /\ (k_kind = "FULLY_ANNOTATED") <=> (\A i \in RequiredIndexes : k_params[i])
        /\ (k_kind = "PARTIALLY_ANNOTATED") <=> (\E i \in RequiredIndexes : ~k_params[i])
        /\ k_kind # "NOT_ANNOTATED"
        /\ (k_method /\ k_params \in {<<>>, <<FALSE>>}) => k_kind = "FULLY_ANNOTATED"

C1_Witness ==
    /\ k_pc = "done" /\ k_ret /\ k_method
    /\ k_params = <<FALSE, TRUE>>
    /\ k_kind = "FULLY_ANNOTATED"

\* C2: with an unannotated return the result is PARTIALLY_ANNOTATED iff some
\* parameter, the first one of a method included, is annotated, and
\* NOT_ANNOTATED otherwise; it is never FULLY_ANNOTATED.
C2_ReturnNotAnnotated ==
    (k_pc = "done" /\ ~k_ret) =>
        /\ (k_kind = "PARTIALLY_ANNOTATED") <=> (\E i \in 1..Len(k_params) : k_params[i])
        /\ (k_kind = "NOT_ANNOTATED") <=> (\A i \in 1..Len(k_params) : ~k_params[i])
        /\ k_kind # "FULLY_ANNOTATED"

C2_Witness ==
    /\ k_pc = "done" /\ ~k_ret /\ k_method
    /\ k_params = <<TRUE>>
    /\ k_kind = "PARTIALLY_ANNOTATED"

----------------------------------------------------------------------------
(* Comment text and the regular expressions matched against it.  The       *)
(* directive words are single tokens; "pyre-ignore-all-errors" is written  *)
(* as "pyre-ignore" followed by "-all-errors", since the ignore pattern    *)
(* matches its prefix.  "x" stands for any other character.                *)

DigitChars == <<"0", "1", "2", "3", "4", "5", "6", "7", "8", "9">>
Digits == {DigitChars[i] : i \in 1..10}
DigitValue(t) == (CHOOSE i \in 1..10 : DigitChars[i] = t) - 1

RECURSIVE SkipWhile(_, _, _)
\* first index j >= i with s[j] not in set (Len(s) + 1 when there is none):
\* where a greedy  [set]*  started at i stops
SkipWhile(s, i, set) ==
    IF i <= Len(s) /\ s[i] \in set THEN SkipWhile(s, i + 1, set) ELSE i

\* the tokens of w occur in s from index i on
HasAt(s, i, w) ==
    /\ i >= 1
    /\ i + Len(w) - 1 <= Len(s)
    /\ \A j \in 1..Len(w) : s[i + j - 1] = w[j]

\* re.match of  " ?#+ *" word : the index after the match, 0 for no match
HeadMatch(value, word) ==
    LET i0 == IF Len(value) >= 1 /\ value[1] = " " THEN 2 ELSE 1
        i1 == SkipWhile(value, i0, {"#"})
        i2 == SkipWhile(value, i1, {" "})
    IN  IF i1 > i0 /\ HasAt(value, i2, word) THEN i2 + Len(word) ELSE 0

\* compile(r" ?#+ *pyre-unsafe").match(value)
unsafe_regex(value) == HeadMatch(value, <<"pyre-unsafe">>) # 0

\* compile(r" ?#+ *pyre-strict").match(value)
strict_regex(value) == HeadMatch(value, <<"pyre-strict">>) # 0

\* compile(r" ?#+ *pyre-ignore-all-errors").match(value)
ignore_all_regex(value) == HeadMatch(value, <<"pyre-ignore", "-all-errors">>) # 0

\* faulty variant: the variant with a code list is not recognised
ignore_all_by_code_regex_never(value) == FALSE

\* compile(r" ?#+ *pyre-ignore-all-errors\[[0-9]+[0-9, ]*\]").match(value)
ignore_all_by_code_regex(value) ==
    LET e == HeadMatch(value, <<"pyre-ignore", "-all-errors">>)
        j == SkipWhile(value, e + 1, Digits \cup {",", " "})
    IN  /\ e # 0
        /\ HasAt(value, e, <<"[">>)
        /\ e + 1 <= Len(value) /\ value[e + 1] \in Digits
        /\ HasAt(value, j, <<"]">>)

----------------------------------------------------------------------------
(* StrictCountCollector                                                    *)

\* The comments a module is built from.  value is the text of the Comment
\* node (libcst's Comment.value starts at the "#"); form says how the
\* comment was written: a strict directive, an unsafe directive, an
\* ignore-all-errors directive without code list, one with a code list, or
\* no directive at the start of the comment.  The collector reads value only.
IgnoreAll == <<"pyre-ignore", "-all-errors">>

StrictComments ==
    { [value |-> <<"#", " ", "pyre-strict">>, form |-> "strict"],
      [value |-> <<"#", "#", " ", " ", "pyre-strict", " ", "x">>, form |-> "strict"],
      [value |-> <<"#", " ", "pyre-unsafe">>, form |-> "unsafe"],
      [value |-> <<"#", "pyre-unsafe", " ", "#", " ", "pyre-strict">>, form |-> "unsafe"],
      [value |-> <<"#", " ">> \o IgnoreAll, form |-> "ignore_all"],
      \* brackets that hold no code list: empty, or not closed
      [value |-> <<"#", " ">> \o IgnoreAll \o <<"[", "]">>, form |-> "ignore_all"],
      [value |-> <<"#", " ">> \o IgnoreAll \o <<"[", "5">>, form |-> "ignore_all"],
      \* the list does not follow the bracket directly
      [value |-> <<"#", " ">> \o IgnoreAll \o <<"[", " ", "5", "]">>, form |-> "ignore_all"],
      [value |-> <<"#", " ">> \o IgnoreAll \o <<"[", "5", "6", "]">>,
       form |-> "ignore_all_by_code"],
      [value |-> <<"#", "#", " ", " ">> \o IgnoreAll \o <<"[", "5", ",", " ", "6", "]", " ", "x">>,
       form |-> "ignore_all_by_code"],
      [value |-> <<"#">> \o IgnoreAll \o <<"[", "5", ",", "]">>,
       form |-> "ignore_all_by_code"],
      \* directives that are not at the start of the comment, other comments
      [value |-> <<"#", " ", "x", " ", "#", " ", "pyre-unsafe">>, form |-> "other"],
      [value |-> <<"#", " ", "x", " ", "pyre-strict">>, form |-> "other"],
      [value |-> <<"#", " ", "pyre-ignore", "[", "5", "]">>, form |-> "other"],
      [value |-> <<"#", " ", "x">>, form |-> "other"] }

\* faulty variant: a later match does not replace a recorded line
strict_visit_Comment_keep_first(strict_line, unsafe_line, value, line) ==
    IF strict_regex(value)
    THEN <<IF strict_line = None THEN Some(line) ELSE strict_line, unsafe_line>>
    ELSE IF unsafe_regex(value)
              \/ (ignore_all_regex(value) /\ ~ignore_all_by_code_regex(value))
         THEN <<strict_line, IF unsafe_line = None THEN Some(line) ELSE unsafe_line>>
         ELSE <<strict_line, unsafe_line>>

\* StrictCountCollector.visit_Comment: the new values of
\* <<explicit_strict_comment_line, explicit_unsafe_comment_line>>
strict_visit_Comment(strict_line, unsafe_line, value, line) ==
    IF strict_regex(value)
    THEN <<Some(line), unsafe_line>>
    ELSE IF unsafe_regex(value)
         THEN <<strict_line, Some(line)>>
         ELSE IF ignore_all_regex(value) /\ ~ignore_all_by_code_regex(value)
              THEN <<strict_line, Some(line)>>
              ELSE <<strict_line, unsafe_line>>

\* faulty variant: the default is not consulted
is_unsafe_module_no_default(strict_line, unsafe_line, default) ==
    IF unsafe_line # None THEN TRUE
    ELSE IF strict_line # None THEN FALSE
    ELSE TRUE

\* faulty variant: a strict directive is looked at first
is_unsafe_module_strict_first(strict_line, unsafe_line, default) ==
    IF strict_line # None \/ default THEN FALSE
    ELSE TRUE

\* StrictCountCollector.is_unsafe_module
is_unsafe_module(strict_line, unsafe_line, default) ==
    IF unsafe_line # None THEN TRUE
    ELSE IF strict_line # None \/ default THEN FALSE
    ELSE TRUE

\* the ModuleStrictData that collect returns
ModuleStrictData(strict_line, unsafe_line, default) ==
    [mode |-> IF is_unsafe_module(strict_line, unsafe_line, default)
              THEN "UNSAFE" ELSE "STRICT",
     explicit_comment_line |->
              IF is_unsafe_module(strict_line, unsafe_line, default)
              THEN unsafe_line ELSE strict_line]

\* StrictCountCollector(strict_by_default), about to visit a module
InitStrict ==
    /\ strict_by_default \in BOOLEAN
    /\ StrictFields
    /\ s_module = <<>>
    /\ s_returned = <<>>
    /\ s_pc = "visit"
    /\ s_result = None
    /\ KindIdle /\ SuppIdle /\ AnnIdle /\ PathIdle /\ FindIdle /\ TreeIdle

\* the traversal reaches the next comment of the module, one line further down
StrictCountCollector_visit_Comment ==
    /\ s_pc = "visit"
    /\ Len(s_module) < MaxComments
    /\ \E node \in StrictComments :
         LET line == Len(s_module) + 1
             lines == strict_visit_Comment(explicit_strict_comment_line,
                                           explicit_unsafe_comment_line,
                                           node.value, line)
         IN  /\ explicit_strict_comment_line' = lines[1]
             /\ explicit_unsafe_comment_line' = lines[2]
             /\ s_module' = Append(s_module, [line |-> line, node |-> node])
    /\ UNCHANGED <<strict_by_default, strict_count, unsafe_count, s_pc, s_result,
                   s_returned, kind_vars, supp_vars, ann_vars, path_vars, find_vars, tree_vars>>

StrictCountCollector_leave_Module ==
    /\ s_pc = "visit"
    /\ IF is_unsafe_module(explicit_strict_comment_line,
                           explicit_unsafe_comment_line, strict_by_default)
       THEN unsafe_count' = unsafe_count + 1 /\ UNCHANGED strict_count
       ELSE strict_count' = strict_count + 1 /\ UNCHANGED unsafe_count
    /\ s_pc' = "left"
    /\ UNCHANGED <<strict_by_default, explicit_strict_comment_line,
                   explicit_unsafe_comment_line, s_module, s_result, s_returned,
                   kind_vars, supp_vars, ann_vars, path_vars, find_vars, tree_vars>>

\* collect: module.visit(self) has returned; build the result
StrictCountCollector_collect ==
    /\ s_pc = "left"
    /\ s_result' = Some(ModuleStrictData(explicit_strict_comment_line,
                                         explicit_unsafe_comment_line,
                                         strict_by_default))
    /\ s_pc' = "collected"
    /\ UNCHANGED <<strict_by_default, explicit_strict_comment_line,
                   explicit_unsafe_comment_line, strict_count, unsafe_count,
                   s_module, s_returned, kind_vars, supp_vars, ann_vars, path_vars, find_vars, tree_vars>>

NextStrict ==
    \/ StrictCountCollector_visit_Comment
    \/ StrictCountCollector_leave_Module
    \/ StrictCountCollector_collect

SpecStrict == InitStrict /\ [][NextStrict]_vars

\* C3: collect resolves the mode by precedence: an unsafe line gives
\* (UNSAFE, that line); otherwise a strict line or the default gives
\* (STRICT, the strict line, None under the default alone); otherwise
\* (UNSAFE, None).  The mode is STRICT or UNSAFE.
C3_Precedence ==
    s_pc = "collected" =>
        LET r == s_result[1] IN
        /\ explicit_unsafe_comment_line # None =>
               r = [mode |-> "UNSAFE",
                    explicit_comment_line |-> explicit_unsafe_comment_line]
        /\ (explicit_unsafe_comment_line = None
            /\ (explicit_strict_comment_line # None \/ strict_by_default)) =>
               r = [mode |-> "STRICT",
                    explicit_comment_line |-> explicit_strict_comment_line]
        /\ (explicit_unsafe_comment_line = None
            /\ explicit_strict_comment_line = None /\ ~strict_by_default) =>
               r = [mode |-> "UNSAFE", explicit_comment_line |-> None]
        /\ r.mode \in {"STRICT", "UNSAFE"}

C3_Witness ==
    /\ s_pc = "collected"
    /\ strict_by_default
    /\ explicit_unsafe_comment_line = None
    /\ explicit_strict_comment_line = None
    /\ s_result = Some([mode |-> "STRICT", explicit_comment_line |-> None])

\* lines of the module's comments written in one of the given forms
LinesOfForm(forms) ==
    {s_module[i].line : i \in {j \in 1..Len(s_module) : s_module[j].node.form \in forms}}

UnsafeForms == {"unsafe", "ignore_all"}

\* C4: a module with an unsafe directive and a strict directive, in any
\* order and under either default, is UNSAFE at the line of one of its
\* unsafe directives.
C4_UnsafeWins ==
    (s_pc = "collected"
     /\ LinesOfForm(UnsafeForms) # {} /\ LinesOfForm({"strict"}) # {}) =>
        /\ s_result[1].mode = "UNSAFE"
        /\ \E l \in LinesOfForm(UnsafeForms) :
               s_result[1].explicit_comment_line = Some(l)

C4_Witness ==
    /\ s_pc = "collected"
    /\ strict_by_default
    /\ Len(s_module) = 2
    /\ s_module[1].node.form = "ignore_all"
    /\ s_module[2].node.form = "strict"
    /\ s_result = Some([mode |-> "UNSAFE", explicit_comment_line |-> Some(1)])

RECURSIVE StrictLinesAfter(_)
\* the two line fields of a fresh collector after visiting the comments of mod
StrictLinesAfter(mod) ==
    IF mod = <<>> THEN <<None, None>>
    ELSE LET before == StrictLinesAfter(SubSeq(mod, 1, Len(mod) - 1))
             last == mod[Len(mod)]
         IN  strict_visit_Comment(before[1], before[2], last.node.value, last.line)

\* mod without its i-th comment (the other comments keep their lines)
WithoutComment(mod, i) == SubSeq(mod, 1, i - 1) \o SubSeq(mod, i + 1, Len(mod))

Min(S) == CHOOSE x \in S : \A y \in S : x <= y
Max(S) == CHOOSE x \in S : \A y \in S : x >= y
FirstLine(S) == IF S = {} THEN None ELSE Some(Min(S))
LastLine(S) == IF S = {} THEN None ELSE Some(Max(S))

\* C6 as stated: the recorded lines are those of the first unsafe (or
\* code-less ignore-all-errors) comment and of the first strict comment.
C6_FirstMatchRecorded ==
    /\ explicit_unsafe_comment_line = FirstLine(LinesOfForm(UnsafeForms))
    /\ explicit_strict_comment_line = FirstLine(LinesOfForm({"strict"}))

\* C6, amended: the recorded lines are those of the last unsafe (or
\* code-less ignore-all-errors) comment and of the last strict comment
\* visited so far; every later match replaces the line.
C6_LastMatchRecorded ==
    /\ explicit_unsafe_comment_line = LastLine(LinesOfForm(UnsafeForms))
    /\ explicit_strict_comment_line = LastLine(LinesOfForm({"strict"}))

C6_Witness ==
    /\ s_pc = "collected"
    /\ Len(s_module) = 3
    /\ s_module[1].node.form = "unsafe"
    /\ s_module[2].node.form = "strict"
    /\ s_module[3].node.form = "ignore_all"
    /\ explicit_unsafe_comment_line = Some(3)

----------------------------------------------------------------------------
(* SuppressionCollector                                                    *)

SuppressionKinds == <<"PYRE_FIXME", "PYRE_IGNORE", "TYPE_IGNORE">>

\* the directive word of each pattern of suppression_regexes
SuppressionWord(kind) ==
    CASE kind = "PYRE_FIXME" -> <<"pyre-fixme">>
      [] kind = "PYRE_IGNORE" -> <<"pyre-ignore">>
      [] kind = "TYPE_IGNORE" -> <<"type: ignore">>

\* faulty variant: the directive is looked for at the first "#" only
suppression_regexes_at_start(kind, value) ==
    LET word == SuppressionWord(kind)
        i == SkipWhile(value, 1, {t \in {value[x] : x \in 1..Len(value)} : t # "#"})
    IN  IF ~(i <= Len(value) /\ HasAt(value, SkipWhile(value, i + 1, {" "}), word))
        THEN [matched |-> FALSE, group |-> None]
        ELSE LET e == SkipWhile(value, i + 1, {" "}) + Len(word)
                 j == SkipWhile(value, e + 1, Digits \cup {" ", ","})
             IN  IF kind # "TYPE_IGNORE"
                    /\ HasAt(value, e, <<"[">>) /\ HasAt(value, j, <<"]">>)
                 THEN [matched |-> TRUE, group |-> Some(SubSeq(value, e, j))]
                 ELSE [matched |-> TRUE, group |-> None]

\* faulty variant: the group is the first bracket anywhere after the word
suppression_regexes_any_bracket(kind, value) ==
    LET word == SuppressionWord(kind)
        starts == {i \in 1..Len(value) :
                     /\ value[i] = "#"
                     /\ HasAt(value, SkipWhile(value, i + 1, {" "}), word)}
    IN  IF starts = {}
        THEN [matched |-> FALSE, group |-> None]
        ELSE LET i == CHOOSE x \in starts : \A y \in starts : x >= y
                 w == SkipWhile(value, i + 1, {" "}) + Len(word)
                 e == SkipWhile(value, w, {t \in {value[x] : x \in 1..Len(value)} : t # "["})
                 j == SkipWhile(value, e + 1, Digits \cup {" ", ","})
             IN  IF kind # "TYPE_IGNORE"
                    /\ HasAt(value, e, <<"[">>) /\ HasAt(value, j, <<"]">>)
                 THEN [matched |-> TRUE, group |-> Some(SubSeq(value, e, j))]
                 ELSE [matched |-> TRUE, group |-> None]

\* re.match(suppression_regexes[kind], value):
\*   ".*"  is greedy, so the match uses the last "#" that is followed by
\*   spaces and the word; the optional group  (\[(\d* *,? *)*\])  is a "["
\*   right after the word, then digits, spaces and commas, then "]".
\* matched says whether there is a match, group is match.group(1) (None for
\* the pattern without group and for a group that did not take part).
suppression_regexes(kind, value) ==
    LET word == SuppressionWord(kind)
        starts == {i \in 1..Len(value) :
                     /\ value[i] = "#"
                     /\ HasAt(value, SkipWhile(value, i + 1, {" "}), word)}
    IN  IF starts = {}
        THEN [matched |-> FALSE, group |-> None]
        ELSE LET i == CHOOSE x \in starts : \A y \in starts : x >= y
                 e == SkipWhile(value, i + 1, {" "}) + Len(word)
                 j == SkipWhile(value, e + 1, Digits \cup {" ", ","})
             IN  IF kind # "TYPE_IGNORE"
                    /\ HasAt(value, e, <<"[">>) /\ HasAt(value, j, <<"]">>)
                 THEN [matched |-> TRUE, group |-> Some(SubSeq(value, e, j))]
                 ELSE [matched |-> TRUE, group |-> None]

RECURSIVE LastKept(_, _)
\* last index of s whose token is not in set (0 when there is none)
LastKept(s, set) ==
    IF s # <<>> /\ s[Len(s)] \in set THEN LastKept(SubSeq(s, 1, Len(s) - 1), set)
    ELSE Len(s)

\* str.strip(chars)
Strip(s, set) == SubSeq(s, SkipWhile(s, 1, set), LastKept(s, set))

RECURSIVE Split(_, _)
\* str.split(sep) for a one-character separator
Split(s, sep) ==
    LET cut == SkipWhile(s, 1, {t \in {s[i] : i \in 1..Len(s)} : t # sep})
    IN  IF cut > Len(s) THEN <<s>>
        ELSE <<SubSeq(s, 1, cut - 1)>> \o Split(SubSeq(s, cut + 1, Len(s)), sep)

RECURSIVE Decimal(_)
Decimal(s) ==
    IF s = <<>> THEN 0
    ELSE 10 * Decimal(SubSeq(s, 1, Len(s) - 1)) + DigitValue(s[Len(s)])

\* int(code): surrounding spaces are allowed; None stands for ValueError
IntOf(code) ==
    LET t == Strip(code, {" "})
    IN  IF t # <<>> /\ \A i \in 1..Len(t) : t[i] \in Digits
        THEN Some(Decimal(t))
        ELSE None

\* faulty variant: the ValueError is not caught
error_codes_from_re_group_uncaught(code_group) ==
    IF code_group = None
    THEN [raised |-> FALSE, codes |-> None]
    ELSE LET code_strings == Split(Strip(code_group[1], {"[", "]", " "}), ",")
         IN  IF \E i \in 1..Len(code_strings) : IntOf(code_strings[i]) = None
             THEN [raised |-> TRUE, codes |-> None]
             ELSE [raised |-> FALSE,
                   codes |-> Some([i \in 1..Len(code_strings) |->
                                       IntOf(code_strings[i])[1]])]

\* faulty variant: a code listed twice is kept once
error_codes_from_re_group_dedup(code_group) ==
    IF code_group = None
    THEN [raised |-> FALSE, codes |-> None]
    ELSE LET code_strings == Split(Strip(code_group[1], {"[", "]", " "}), ",")
             first == SelectSeq([i \in 1..Len(code_strings) |-> i],
                                LAMBDA i : \A j \in 1..(i - 1) :
                                    IntOf(code_strings[j]) # IntOf(code_strings[i]))
         IN  IF \E i \in 1..Len(code_strings) : IntOf(code_strings[i]) = None
             THEN [raised |-> FALSE, codes |-> Some(<<>>)]
             ELSE [raised |-> FALSE,
                   codes |-> Some([i \in 1..Len(first) |->
                                       IntOf(code_strings[first[i]])[1]])]

\* faulty variant: the pieces that parse are kept when another piece does not
error_codes_from_re_group_partial(code_group) ==
    IF code_group = None
    THEN [raised |-> FALSE, codes |-> None]
    ELSE LET code_strings == Split(Strip(code_group[1], {"[", "]", " "}), ",")
             good == SelectSeq(code_strings, LAMBDA c : IntOf(c) # None)
         IN  [raised |-> FALSE,
              codes |-> Some([i \in 1..Len(good) |-> IntOf(good[i])[1]])]

\* SuppressionCollector._error_codes_from_re_group, given match.group(1);
\* raised says whether an exception leaves the function
error_codes_from_re_group(code_group) ==
    IF code_group = None
    THEN [raised |-> FALSE, codes |-> None]
    ELSE LET code_strings == Split(Strip(code_group[1], {"[", "]", " "}), ",")
         IN  IF \E i \in 1..Len(code_strings) : IntOf(code_strings[i]) = None
             THEN [raised |-> FALSE, codes |-> Some(<<>>)]
             ELSE [raised |-> FALSE,
                   codes |-> Some([i \in 1..Len(code_strings) |->
                                       IntOf(code_strings[i])[1]])]

\* the kinds whose pattern matches value, in the order of suppression_regexes
MatchedKinds(value) ==
    SelectSeq(SuppressionKinds, LAMBDA k : suppression_regexes(k, value).matched)

\* SuppressionCollector.suppression_from_comment: the suppressions yielded
\* for a comment on the given line
suppression_from_comment(value, line) ==
    LET kinds == MatchedKinds(value)
    IN  [i \in 1..Len(kinds) |->
            [kind |-> kinds[i],
             line |-> line,
             error_codes |->
                 error_codes_from_re_group(suppression_regexes(kinds[i], value).group).codes]]

\* an exception leaves suppression_from_comment
suppression_from_comment_raises(value) ==
    \E i \in 1..Len(SuppressionKinds) :
        LET m == suppression_regexes(SuppressionKinds[i], value)
        IN  m.matched /\ error_codes_from_re_group(m.group).raised

----------------------------------------------------------------------------
(* _error_codes_from_re_group on the comments of one directive             *)

\* A piece written between the commas of a bracket: its text, and the number
\* it denotes (None when it denotes none: empty, or two numbers)
Pieces ==
    { [text |-> <<"5">>, number |-> Some(5)],
      [text |-> <<"3", "4">>, number |-> Some(34)],
      [text |-> <<" ", "8", " ">>, number |-> Some(8)],
      [text |-> <<>>, number |-> None],
      [text |-> <<"5", " ", "6">>, number |-> None] }

PieceLists == UNION {[1..n -> Pieces] : n \in 1..MaxPieces}

RECURSIVE JoinPieces(_)
\* ",".join of the texts
JoinPieces(ps) ==
    IF Len(ps) = 1 THEN ps[1].text
    ELSE JoinPieces(SubSeq(ps, 1, Len(ps) - 1)) \o <<",">> \o ps[Len(ps)].text

\* the codes a written bracket stands for: [] when a piece denotes no number
WrittenCodes(ps) ==
    IF \E i \in 1..Len(ps) : ps[i].number = None
    THEN Some(<<>>)
    ELSE Some([i \in 1..Len(ps) |-> ps[i].number[1]])

CommentPrefixes ==
    { <<"#", " ">>, <<"#">>, <<"#", " ", "x", " ", " ", " ", "#", " ", " ">> }

CommentTails == { <<>>, <<" ", "x">>, <<":", " ", "x">> }

\* what follows the directive word when no bracket group is written: nothing,
\* an unclosed bracket, a bracket holding a letter, a bracket after a space
NoGroups == { <<>>, <<"[", "5">>, <<"[", "x", "]">>, <<" ", "[", "5", "]">> }

\* Comments with one fix-me or ignore directive.  directives lists what is
\* written in the comment: the kind and the codes the bracket stands for.
CodesComments ==
    { [value |-> pre \o SuppressionWord(kind) \o <<"[">> \o JoinPieces(ps) \o <<"]">> \o tail,
       directives |-> <<[kind |-> kind, error_codes |-> WrittenCodes(ps)]>>] :
         pre \in CommentPrefixes, kind \in {"PYRE_FIXME", "PYRE_IGNORE"},
         ps \in PieceLists, tail \in CommentTails }
    \cup
    { [value |-> pre \o SuppressionWord(kind) \o nogroup \o tail,
       directives |-> <<[kind |-> kind, error_codes |-> None]>>] :
         pre \in CommentPrefixes, kind \in {"PYRE_FIXME", "PYRE_IGNORE"},
         nogroup \in NoGroups, tail \in CommentTails }

\* SuppressionCollector() and one comment node on line 1
InitCodes ==
    /\ suppressions = <<>>
    /\ p_node \in CodesComments
    /\ p_line = 1
    /\ p_module = <<>>
    /\ p_pc = "visit"
    /\ registry = None
    /\ KindIdle /\ StrictIdle /\ AnnIdle /\ PathIdle /\ FindIdle /\ TreeIdle

\* SuppressionCollector.visit_Comment for a node on a line
VisitComment(node, line) ==
    IF suppression_from_comment_raises(node.value)
    THEN /\ p_pc' = "raised"
         /\ UNCHANGED suppressions
    ELSE /\ p_pc' = "visited"
         /\ suppressions' = suppressions \o suppression_from_comment(node.value, line)

SuppressionCollector_visit_given_Comment ==
    /\ p_pc = "visit"
    /\ VisitComment(p_node, p_line)
    /\ p_module' = Append(p_module, [line |-> p_line, node |-> p_node])
    /\ UNCHANGED <<p_node, p_line, registry, kind_vars, strict_vars, ann_vars, path_vars, find_vars, tree_vars>>

NextCodes == SuppressionCollector_visit_given_Comment

SpecCodes == InitCodes /\ [][NextCodes]_vars

\* the suppressions written in the comments visited so far
WrittenSuppressions ==
    LET RECURSIVE Of(_)
        Of(mod) ==
            IF mod = <<>> THEN <<>>
            ELSE Of(SubSeq(mod, 1, Len(mod) - 1)) \o
                 [i \in 1..Len(mod[Len(mod)].node.directives) |->
                     [kind |-> mod[Len(mod)].node.directives[i].kind,
                      line |-> mod[Len(mod)].line,
                      error_codes |-> mod[Len(mod)].node.directives[i].error_codes]]
    IN  Of(p_module)

\* C7: the codes of a matched fix-me or ignore directive are None when no
\* bracket group follows the directive, [] when a group follows and one of
\* its pieces is no integer, and otherwise the integers as written (order
\* and duplicates kept); no exception leaves the visitor.
C7_CodesThreeValued ==
    /\ p_pc # "raised"
    /\ p_pc = "visited" => suppressions = WrittenSuppressions

C7_Witness ==
    /\ p_pc = "visited"
    /\ p_node.value = <<"#", " ", "pyre-fixme", "[", " ", "8", " ", ",", "]">>
    /\ suppressions = <<[kind |-> "PYRE_FIXME", line |-> 1, error_codes |-> Some(<<>>)]>>

C7_WitnessParsed ==
    /\ p_pc = "visited"
    /\ p_node.value = <<"#", " ", "pyre-ignore", "[", "3", "4", ",", "5", "]">>
    /\ suppressions = <<[kind |-> "PYRE_IGNORE", line |-> 1, error_codes |-> Some(<<34, 5>>)]>>

----------------------------------------------------------------------------
(* SuppressionCollector over a module, and the count collector of one kind *)

Directive(kind, codes) == [kind |-> kind, error_codes |-> codes]

\* The comments a module is built from, with the directives written in each
SuppComments ==
    { [value |-> <<"#", " ", "pyre-fixme">>,
       directives |-> <<Directive("PYRE_FIXME", None)>>],
      [value |-> <<"#", " ", "pyre-fixme", "[", "8", ",", "]">>,
       directives |-> <<Directive("PYRE_FIXME", Some(<<>>))>>],
      [value |-> <<"#", " ", "pyre-fixme", "[", "3", "]", ":", " ", "x">>,
       directives |-> <<Directive("PYRE_FIXME", Some(<<3>>))>>],
      [value |-> <<"#", " ", "pyre-fixme", "[", "3", ",", " ", "4", "]">>,
       directives |-> <<Directive("PYRE_FIXME", Some(<<3, 4>>))>>],
      [value |-> <<"#", " ", "pyre-fixme", "[", "4", ",", "4", "]">>,
       directives |-> <<Directive("PYRE_FIXME", Some(<<4, 4>>))>>],
      [value |-> <<"#", " ", "x", " ", " ", " ", "#", " ", " ", "pyre-fixme", "[", "7", "]", " ", "x">>,
       directives |-> <<Directive("PYRE_FIXME", Some(<<7>>))>>],
      [value |-> <<"#", " ", "pyre-ignore">>,
       directives |-> <<Directive("PYRE_IGNORE", None)>>],
      [value |-> <<"#", " ", "pyre-ignore", "[", "3", "]">>,
       directives |-> <<Directive("PYRE_IGNORE", Some(<<3>>))>>],
      [value |-> <<"#", " ", "pyre-fixme", "[", "3", "]", " ", "#", " ", "pyre-ignore", "[", "4", "]">>,
       directives |-> <<Directive("PYRE_FIXME", Some(<<3>>)),
                        Directive("PYRE_IGNORE", Some(<<4>>))>>],
      [value |-> <<"#", " ", "type: ignore">>,
       directives |-> <<Directive("TYPE_IGNORE", None)>>],
      [value |-> <<"#", " ", "pyre-fixme", "[", "7", "]">>,
       directives |-> <<Directive("PYRE_FIXME", Some(<<7>>))>>],
      [value |-> <<"#", " ", "pyre-ignore", "[", "7", "]">>,
       directives |-> <<Directive("PYRE_IGNORE", Some(<<7>>))>>],
      [value |-> <<"#", " ", "x", " ", " ", " ", "#", " ", " ", "pyre-ignore", "[", "7", "]", " ", "x">>,
       directives |-> <<Directive("PYRE_IGNORE", Some(<<7>>))>>],
      \* the ignore pattern matches the start of the file-level marker
      [value |-> <<"#", " ", "pyre-ignore", "-all-errors", "[", "5", "]">>,
       directives |-> <<Directive("PYRE_IGNORE", None)>>],
      [value |-> <<"#", " ", "pyre-ignore", "-all-errors">>,
       directives |-> <<Directive("PYRE_IGNORE", None)>>],
      \* the marker, then an ignore directive of its own
      [value |-> <<"#", " ", "pyre-ignore", "-all-errors", "[", "5", "]", " ",
                   "#", " ", "pyre-ignore", "[", "3", "]">>,
       directives |-> <<Directive("PYRE_IGNORE", Some(<<3>>))>>],
      [value |-> <<"#", " ", "x">>, directives |-> <<>>] }

\* SuppressionCollector(), about to visit a module
InitSupp ==
    /\ suppressions = <<>>
    /\ p_node = <<>>
    /\ p_line = 0
    /\ p_module = <<>>
    /\ p_pc = "visit"
    /\ registry = None
    /\ KindIdle /\ StrictIdle /\ AnnIdle /\ PathIdle /\ FindIdle /\ TreeIdle

\* the traversal reaches the next comment of the module, further down
SuppressionCollector_visit_Comment ==
    /\ p_pc \in {"visit", "visited"}
    /\ \E node \in SuppComments, line \in (p_line + 1)..MaxSuppLines :
         /\ p_node' = node
         /\ p_line' = line
         /\ p_module' = Append(p_module, [line |-> line, node |-> node])
         /\ VisitComment(node, line)
    /\ UNCHANGED <<registry, kind_vars, strict_vars, ann_vars, path_vars, find_vars, tree_vars>>

\* SuppressionCollector.collect: module.visit(self) has returned
SuppressionCollector_collect ==
    /\ p_pc \in {"visit", "visited"}
    /\ p_pc' = "collected"
    /\ UNCHANGED <<suppressions, p_node, p_line, p_module, registry,
                   kind_vars, strict_vars, ann_vars, path_vars, find_vars, tree_vars>>

EmptyRegistry == [code |-> [c \in {} |-> <<>>], no_code |-> <<>>]

\* one line appended to the line list of a code
AddCodeLine(code, c, line) ==
    IF c \in DOMAIN code
    THEN [code EXCEPT ![c] = Append(@, line)]
    ELSE [d \in DOMAIN code \cup {c} |-> IF d = c THEN <<line>> ELSE code[d]]

RECURSIVE AddCodeLines(_, _, _)
\* the line appended once per listed code
AddCodeLines(code, codes, line) ==
    IF codes = <<>> THEN code
    ELSE AddCodeLines(AddCodeLine(code, Head(codes), line), Tail(codes), line)

RECURSIVE SuppressionCountCollector(_, _)
\* the registry of one kind folded from the collected suppressions
SuppressionCountCollector(kind, supps) ==
    IF supps = <<>> THEN EmptyRegistry
    ELSE LET before == SuppressionCountCollector(kind, SubSeq(supps, 1, Len(supps) - 1))
             last == supps[Len(supps)]
         IN  IF last.kind # kind THEN before
             ELSE IF last.error_codes = None \/ last.error_codes = Some(<<>>)
                  THEN [before EXCEPT !.no_code = Append(@, last.line)]
                  ELSE [before EXCEPT
                          !.code = AddCodeLines(@, last.error_codes[1], last.line)]

\* the count collectors of the kinds fold the suppressions
SuppressionCountCollector_collect ==
    /\ p_pc = "collected"
    /\ registry' = Some([k \in {"PYRE_FIXME", "PYRE_IGNORE", "TYPE_IGNORE"} |->
                            SuppressionCountCollector(k, suppressions)])
    /\ p_pc' = "counted"
    /\ UNCHANGED <<suppressions, p_node, p_line, p_module,
                   kind_vars, strict_vars, ann_vars, path_vars, find_vars, tree_vars>>

NextSupp ==
    \/ SuppressionCollector_visit_Comment
    \/ SuppressionCollector_collect
    \/ SuppressionCountCollector_collect

SpecSupp == InitSupp /\ [][NextSupp]_vars

\* the directives of a kind written in the module, top to bottom
WrittenOfKind(kind) == SelectSeq(WrittenSuppressions, LAMBDA d : d.kind = kind)

HasNoCodes(d) == d.error_codes = None \/ d.error_codes = Some(<<>>)

LinesOf(ds) == [i \in 1..Len(ds) |-> ds[i].line]

Range(f) == {f[x] : x \in DOMAIN f}

CountedKinds == {"PYRE_FIXME", "PYRE_IGNORE"}

\* C8: the directives of a kind written without codes, or with codes that do
\* not parse, give their lines to no_code, top to bottom, and to no list of
\* code; when no directive of the kind has codes, code is empty.
C8_NoCode ==
    p_pc = "counted" =>
        \A k \in CountedKinds :
            LET r == registry[1][k]
                codeless == SelectSeq(WrittenOfKind(k), HasNoCodes)
            IN  /\ r.no_code = LinesOf(codeless)
                /\ \A c \in DOMAIN r.code : Range(r.code[c]) \cap Range(LinesOf(codeless)) = {}
                /\ Len(codeless) = Len(WrittenOfKind(k)) => DOMAIN r.code = {}

C8_Witness ==
    /\ p_pc = "counted"
    /\ Len(p_module) = 2
    /\ p_module[1].node.value = <<"#", " ", "pyre-fixme">>
    /\ p_module[2].node.value = <<"#", " ", "pyre-fixme", "[", "8", ",", "]">>
    /\ registry[1]["PYRE_FIXME"] = [code |-> <<>>, no_code |-> <<p_module[1].line, p_module[2].line>>]

\* how many times c is listed in codes
RECURSIVE Times(_, _)
Times(codes, c) ==
    IF codes = <<>> THEN 0
    ELSE (IF Head(codes) = c THEN 1 ELSE 0) + Times(Tail(codes), c)

RECURSIVE LinesForCode(_, _)
\* the lines of the directives ds listing c, each once per listing
LinesForCode(ds, c) ==
    IF ds = <<>> THEN <<>>
    ELSE LinesForCode(SubSeq(ds, 1, Len(ds) - 1), c) \o
         (LET d == ds[Len(ds)]
          IN  IF HasNoCodes(d) THEN <<>>
              ELSE [i \in 1..Times(d.error_codes[1], c) |-> d.line])

\* C9: a directive with codes gives its line once per listed code to the
\* list of that code and nothing to no_code; every list is in traversal
\* order.
C9_CodeLines ==
    p_pc = "counted" =>
        \A k \in CountedKinds :
            LET r == registry[1][k]
                coded == SelectSeq(WrittenOfKind(k), LAMBDA d : ~HasNoCodes(d))
                listed == UNION {Range(coded[i].error_codes[1]) : i \in 1..Len(coded)}
            IN  /\ DOMAIN r.code = listed
                /\ \A c \in listed : r.code[c] = LinesForCode(coded, c)
                /\ \A c \in listed : \A i, j \in 1..Len(r.code[c]) :
                       i < j => r.code[c][i] <= r.code[c][j]
                /\ Range(r.no_code) \cap Range(LinesOf(coded)) = {}

C9_Witness ==
    /\ p_pc = "counted"
    /\ Len(p_module) = 2
    /\ p_module[1].node.value = <<"#", " ", "pyre-fixme", "[", "3", "]", ":", " ", "x">>
    /\ p_module[2].node.value = <<"#", " ", "pyre-fixme", "[", "3", ",", " ", "4", "]">>
    /\ p_module[1].line = 1 /\ p_module[2].line = 3
    /\ registry[1]["PYRE_FIXME"].code = [c \in {3, 4} |-> IF c = 3 THEN <<1, 3>> ELSE <<3>>]
    /\ registry[1]["PYRE_FIXME"].no_code = <<>>

----------------------------------------------------------------------------
(* AnnotationContext                                                       *)

\* AnnotationContext._define_includes_staticmethod: a decorator is given by
\* the class of its node and, for a Name, its value
define_includes_staticmethod(define) ==
    \E i \in 1..Len(define.decorators) :
        /\ define.decorators[i].node = "Name"
        /\ define.decorators[i].value = "staticmethod"

update_for_enter_define(ctx, define) ==
    [ctx EXCEPT
        !.define_depth = @ + 1,
        !.static_define_depth =
            IF define_includes_staticmethod(define) THEN @ + 1 ELSE @]

\* faulty variant: the static depth is not taken back
update_for_exit_define_keeps_static(ctx, define) ==
    [ctx EXCEPT !.define_depth = @ - 1]

update_for_exit_define(ctx, define) ==
    [ctx EXCEPT
        !.define_depth = @ - 1,
        !.static_define_depth =
            IF define_includes_staticmethod(define) THEN @ - 1 ELSE @]

update_for_enter_class(ctx, classdef) ==
    [ctx EXCEPT !.class_name_stack = Append(@, classdef.name)]

update_for_exit_class(ctx) ==
    [ctx EXCEPT !.class_name_stack = SubSeq(@, 1, Len(@) - 1)]

\* ".".join((*class_name_stack, name)), kept as the sequence of its parts
name_of(ctx, node) == Append(ctx.class_name_stack, node.name)

\* faulty variant: only the innermost scope is looked at
assignments_are_function_local_innermost(ctx) ==
    ctx.define_depth > 0 /\ Len(ctx.class_name_stack) = 0

assignments_are_function_local(ctx) == ctx.define_depth > 0

\* faulty variant: one enclosing class is not enough
assignments_are_class_level_nested(ctx) == Len(ctx.class_name_stack) > 1

assignments_are_class_level(ctx) == Len(ctx.class_name_stack) > 0

is_non_static_method(ctx) ==
    Len(ctx.class_name_stack) > 0 /\ ~(ctx.static_define_depth > 0)

----------------------------------------------------------------------------
(* AnnotationCollector and AnnotationCountCollector.  A code range is the  *)
(* line of the node; a parameter's is <<line, position>>.                  *)

Name(value) == [node |-> "Name", value |-> value]

DecoratorLists ==
    { <<>>, <<Name("staticmethod")>>, <<Name("classmethod")>>,
      <<[node |-> "Attribute", value |-> "staticmethod"]>> }

ParameterLists == { <<>>, <<FALSE>>, <<TRUE>>, <<FALSE, TRUE>> }

ClassDefs == { [type |-> "ClassDef", name |-> "A"] }

FunctionDefs ==
    { [type |-> "FunctionDef", name |-> "f", decorators |-> ds,
       returns |-> r, params |-> ps] :
         ds \in DecoratorLists, r \in BOOLEAN, ps \in ParameterLists }

\* classes of the value of an assignment
AssignValues == { "Integer", "SimpleString", "Name", "Call", "List" }

Assigns == { [type |-> "Assign", value |-> v] : v \in AssignValues }

AnnAssigns == { [type |-> "AnnAssign"] }

\* AnnotationCollector.get_parameter_annotation_info
get_parameter_annotation_info(function_name, params, line) ==
    [i \in 1..Len(params) |->
        [function_name |-> function_name,
         is_annotated |-> params[i],
         code_range |-> <<line, i>>]]

\* the FunctionAnnotationInfo that visit_FunctionDef appends, given the
\* context before the visit
FunctionAnnotationInfo(ctx, node, line) ==
    LET function_name == name_of(ctx, node)
        entered == update_for_enter_define(ctx, node)
        returns == [function_name |-> function_name,
                    is_annotated |-> node.returns,
                    code_range |-> line]
    IN  [code_range |-> line,
         annotation_kind |->
             from_function_data(is_non_static_method(entered),
                                returns.is_annotated, node.params),
         returns |-> returns,
         parameters |-> get_parameter_annotation_info(function_name, node.params, line),
         is_method_or_classmethod |-> is_non_static_method(entered)]

\* isinstance(value, BaseNumber) or isinstance(value, BaseString)
implicitly_annotated_literal(value) ==
    value \in {"Integer", "Float", "Imaginary",
               "SimpleString", "ConcatenatedString", "FormattedString"}

\* faulty variant: a plain name is not taken as annotated
implicitly_annotated_value_call_only(value) == value = "Call"

\* isinstance(value, Name) or isinstance(value, Call)
implicitly_annotated_value(value) == value \in {"Name", "Call"}

\* the end line of the module's range as the parser reports it: one past
\* the last line of text, with or without a trailing newline
ModuleEndLine(lines) == lines + 1

\* faulty variant: the end line is taken as it is
leave_Module_line_count_unadjusted(end_line, trailing_newline) == end_line

\* the line_count that AnnotationCollector.leave_Module sets
leave_Module_line_count(end_line, trailing_newline) ==
    IF trailing_newline THEN end_line ELSE end_line - 1

\* AnnotationCountCollector(), about to visit a module
InitAnn ==
    /\ AnnFields
    /\ a_stack = <<>>
    /\ a_line = 0
    /\ a_last = "none"
    /\ src_lines = 0
    /\ has_trailing_newline = FALSE
    /\ a_pc = "visit"
    /\ data = None
    /\ KindIdle /\ StrictIdle /\ SuppIdle /\ PathIdle /\ FindIdle /\ TreeIdle

\* the walker is inside the module and the next statement starts a line
\* further down
CanVisit == a_pc = "visit" /\ a_line < MaxSrcLines

AnnotationCollector_visit_ClassDef ==
    /\ CanVisit
    /\ \E node \in ClassDefs :
         /\ context' = update_for_enter_class(context, node)
         /\ a_stack' = Append(a_stack, node)
         /\ a_last' = "visit_ClassDef"
    /\ a_line' = a_line + 1
    /\ UNCHANGED <<globals, attributes, functions, line_count, src_lines,
                   has_trailing_newline, a_pc, data,
                   kind_vars, strict_vars, supp_vars, path_vars, find_vars, tree_vars>>

AnnotationCollector_leave_ClassDef ==
    /\ a_pc = "visit"
    /\ a_stack # <<>> /\ a_stack[Len(a_stack)].type = "ClassDef"
    /\ context' = update_for_exit_class(context)
    /\ a_stack' = SubSeq(a_stack, 1, Len(a_stack) - 1)
    /\ a_last' = "leave_ClassDef"
    /\ UNCHANGED <<globals, attributes, functions, line_count, a_line, src_lines,
                   has_trailing_newline, a_pc, data,
                   kind_vars, strict_vars, supp_vars, path_vars, find_vars, tree_vars>>

AnnotationCollector_visit_FunctionDef ==
    /\ CanVisit
    /\ \E node \in FunctionDefs :
         /\ context' = update_for_enter_define(context, node)
         /\ functions' = Append(functions, FunctionAnnotationInfo(context, node, a_line + 1))
         /\ a_stack' = Append(a_stack, node)
         /\ a_last' = "visit_FunctionDef"
    /\ a_line' = a_line + 1
    /\ UNCHANGED <<globals, attributes, line_count, src_lines,
                   has_trailing_newline, a_pc, data,
                   kind_vars, strict_vars, supp_vars, path_vars, find_vars, tree_vars>>

AnnotationCollector_leave_FunctionDef ==
    /\ a_pc = "visit"
    /\ a_stack # <<>> /\ a_stack[Len(a_stack)].type = "FunctionDef"
    /\ context' = update_for_exit_define(context, a_stack[Len(a_stack)])
    /\ a_stack' = SubSeq(a_stack, 1, Len(a_stack) - 1)
    /\ a_last' = "leave_FunctionDef"
    /\ UNCHANGED <<globals, attributes, functions, line_count, a_line, src_lines,
                   has_trailing_newline, a_pc, data,
                   kind_vars, strict_vars, supp_vars, path_vars, find_vars, tree_vars>>

\* the fact appended for an assignment on a line
AnnotationInfo(node, is_annotated, line) ==
    [node |-> node, is_annotated |-> is_annotated, code_range |-> line]

AnnotationCollector_visit_Assign ==
    /\ CanVisit
    /\ \E node \in Assigns :
         /\ a_last' = "visit_Assign"
         /\ IF assignments_are_function_local(context)
            THEN UNCHANGED <<globals, attributes>>
            ELSE LET is_annotated == implicitly_annotated_literal(node.value)
                                         \/ implicitly_annotated_value(node.value)
                 IN  IF assignments_are_class_level(context)
                     THEN /\ attributes' = Append(attributes,
                                                  AnnotationInfo(node, is_annotated, a_line + 1))
                          /\ UNCHANGED globals
                     ELSE /\ globals' = Append(globals,
                                               AnnotationInfo(node, is_annotated, a_line + 1))
                          /\ UNCHANGED attributes
    /\ a_line' = a_line + 1
    /\ UNCHANGED <<context, functions, line_count, a_stack, src_lines,
                   has_trailing_newline, a_pc, data,
                   kind_vars, strict_vars, supp_vars, path_vars, find_vars, tree_vars>>

AnnotationCollector_visit_AnnAssign ==
    /\ CanVisit
    /\ \E node \in AnnAssigns :
         /\ a_last' = "visit_AnnAssign"
         /\ IF assignments_are_function_local(context)
            THEN UNCHANGED <<globals, attributes>>
            ELSE IF assignments_are_class_level(context)
                 THEN /\ attributes' = Append(attributes,
                                              AnnotationInfo(node, TRUE, a_line + 1))
                      /\ UNCHANGED globals
                 ELSE /\ globals' = Append(globals,
                                           AnnotationInfo(node, TRUE, a_line + 1))
                      /\ UNCHANGED attributes
    /\ a_line' = a_line + 1
    /\ UNCHANGED <<context, functions, line_count, a_stack, src_lines,
                   has_trailing_newline, a_pc, data,
                   kind_vars, strict_vars, supp_vars, path_vars, find_vars, tree_vars>>

\* the walker leaves the module: its text has src_lines lines (at least one,
\* and all the lines visited), with or without a trailing newline
AnnotationCollector_leave_Module ==
    /\ a_pc = "visit"
    /\ a_stack = <<>>
    /\ \E lines \in 1..MaxSrcLines, trailing_newline \in BOOLEAN :
         /\ lines >= a_line
         /\ src_lines' = lines
         /\ has_trailing_newline' = trailing_newline
         /\ line_count' = leave_Module_line_count(ModuleEndLine(lines), trailing_newline)
    /\ a_pc' = "left"
    /\ UNCHANGED <<context, globals, attributes, functions, a_stack, a_line, a_last, data,
                   kind_vars, strict_vars, supp_vars, path_vars, find_vars, tree_vars>>

\* faulty variant: the first parameter of a method is kept
non_self_cls_parameters_all(function) == function.parameters

\* FunctionAnnotationInfo.non_self_cls_parameters
non_self_cls_parameters(function) ==
    IF function.is_method_or_classmethod
    THEN Rest(function.parameters)
    ELSE function.parameters

RECURSIVE Flatten(_)
Flatten(ss) == IF ss = <<>> THEN <<>> ELSE Head(ss) \o Flatten(Tail(ss))

\* AnnotationCollector.parameters
parameters ==
    Flatten([i \in 1..Len(functions) |-> non_self_cls_parameters(functions[i])])

\* AnnotationCollector.returns
returns == [i \in 1..Len(functions) |-> functions[i].returns]

CodeRanges(facts) == [i \in 1..Len(facts) |-> facts[i].code_range]

\* the ModuleAnnotationData that AnnotationCountCollector.collect returns
ModuleAnnotationData ==
    [line_count |-> line_count,
     total_functions |-> CodeRanges(functions),
     partially_annotated_functions |->
         CodeRanges(SelectSeq(functions,
                              LAMBDA f : f.annotation_kind = "PARTIALLY_ANNOTATED")),
     fully_annotated_functions |->
         CodeRanges(SelectSeq(functions,
                              LAMBDA f : f.annotation_kind = "FULLY_ANNOTATED")),
     total_parameters |-> CodeRanges(parameters),
     annotated_parameters |-> CodeRanges(SelectSeq(parameters, LAMBDA q : q.is_annotated)),
     total_returns |-> CodeRanges(returns),
     annotated_returns |-> CodeRanges(SelectSeq(returns, LAMBDA r : r.is_annotated)),
     total_globals |-> CodeRanges(globals),
     annotated_globals |-> CodeRanges(SelectSeq(globals, LAMBDA g : g.is_annotated)),
     total_attributes |-> CodeRanges(attributes),
     annotated_attributes |-> CodeRanges(SelectSeq(attributes, LAMBDA a : a.is_annotated))]

\* AnnotationCountCollector.collect: module.visit(self) has returned
AnnotationCountCollector_collect ==
    /\ a_pc = "left"
    /\ data' = Some(ModuleAnnotationData)
    /\ a_pc' = "collected"
    /\ UNCHANGED <<context, globals, attributes, functions, line_count, a_stack,
                   a_line, a_last, src_lines, has_trailing_newline,
                   kind_vars, strict_vars, supp_vars, path_vars, find_vars, tree_vars>>

NextAnn ==
    \/ AnnotationCollector_visit_ClassDef
    \/ AnnotationCollector_leave_ClassDef
    \/ AnnotationCollector_visit_FunctionDef
    \/ AnnotationCollector_leave_FunctionDef
    \/ AnnotationCollector_visit_Assign
    \/ AnnotationCollector_visit_AnnAssign
    \/ AnnotationCollector_leave_Module
    \/ AnnotationCountCollector_collect

SpecAnn == InitAnn /\ [][NextAnn]_vars

\* C10: after leaving the module, line_count is the end line of the module's
\* range when the source ends with a newline and that line minus 1 when it
\* does not: a source of one line has line_count 1 without and 2 with the
\* trailing newline.
C10_LineCount ==
    a_pc \in {"left", "collected"} =>
        /\ has_trailing_newline => line_count = ModuleEndLine(src_lines)
        /\ ~has_trailing_newline => line_count = ModuleEndLine(src_lines) - 1
        /\ (src_lines = 1 /\ ~has_trailing_newline) => line_count = 1
        /\ (src_lines = 1 /\ has_trailing_newline) => line_count = 2
        /\ a_pc = "collected" => data[1].line_count = line_count

C10_Witness ==
    /\ a_pc = "collected"
    /\ src_lines = 1 /\ ~has_trailing_newline
    /\ a_line = 1
    /\ data[1].line_count = 1

\* some function definition is among the open nodes
InsideFunction(stack) == \E i \in 1..Len(stack) : stack[i].type = "FunctionDef"

\* C11: an assignment, plain or annotated, that lies inside a function body
\* at any depth, also in a class defined inside the function, adds no fact
\* to globals and none to attributes.
C11_FunctionLocalIgnored ==
    [][(/\ a_last' \in {"visit_Assign", "visit_AnnAssign"}
        /\ a_line' = a_line + 1
        /\ InsideFunction(a_stack))
       => UNCHANGED <<globals, attributes>>]_vars

C11_Witness ==
    /\ a_last = "visit_Assign"
    /\ a_line = 3
    /\ Len(a_stack) = 2
    /\ a_stack[1].type = "FunctionDef" /\ a_stack[2].type = "ClassDef"
    /\ globals = <<>> /\ attributes = <<>>

\* the values of a plain assignment that count as annotated: a numeric
\* literal, a string literal, a plain name, a call
CountsAsAnnotated(value) == value \in {"Integer", "SimpleString", "Name", "Call"}

\* C12: a recorded annotated assignment has is_annotated true; a recorded
\* plain assignment has it true exactly when its value is a numeric literal,
\* a string literal, a plain name or a call, and false for a list; the rule
\* is the same for globals and for attributes.
C12_ImplicitAnnotation ==
    \A facts \in {globals, attributes} : \A i \in 1..Len(facts) :
        LET fact == facts[i]
        IN  /\ fact.node.type = "AnnAssign" => fact.is_annotated
            /\ fact.node.type = "Assign" =>
                   /\ fact.is_annotated <=> CountsAsAnnotated(fact.node.value)
                   /\ fact.node.value = "List" => ~fact.is_annotated

C12_Witness ==
    /\ Len(attributes) = 1 /\ Len(globals) = 1
    /\ attributes[1].node = [type |-> "Assign", value |-> "List"]
    /\ ~attributes[1].is_annotated
    /\ globals[1].node = [type |-> "Assign", value |-> "Name"]
    /\ globals[1].is_annotated

\* C13: the function fact that visit_FunctionDef appends has
\* is_method_or_classmethod true exactly when the function is defined
\* directly in a class body and has no staticmethod decorator, whatever
\* encloses that class or that body further out.
C13_DirectEnclosure ==
    [][(a_last' = "visit_FunctionDef" /\ a_line' = a_line + 1) =>
          LET node == a_stack'[Len(a_stack')]
              fact == functions'[Len(functions')]
          IN  fact.is_method_or_classmethod <=>
                  /\ a_stack # <<>>
                  /\ a_stack[Len(a_stack)].type = "ClassDef"
                  /\ ~define_includes_staticmethod(node)]_vars

RECURSIVE SumSeq(_)
SumSeq(s) == IF s = <<>> THEN 0 ELSE Head(s) + SumSeq(Tail(s))

\* the positions of the parameters of a function fact that are counted
CountedPositions(f) ==
    {i \in 1..Len(f.parameters) : f.is_method_or_classmethod => i > 1}

\* C14: in collect's result the number of returns is the number of
\* functions; the number of parameters is the sum over the functions of
\* the number of their parameters, less one for a method with at least one
\* parameter; the annotated parameters are counted among those only.
C14_Counts ==
    a_pc = "collected" =>
        LET d == data[1]
            n(f) == Len(f.parameters)
            counted(f) == IF f.is_method_or_classmethod /\ n(f) >= 1
                          THEN n(f) - 1 ELSE n(f)
            annotated(f) ==
                Cardinality({i \in CountedPositions(f) : f.parameters[i].is_annotated})
        IN  /\ Len(d.total_returns) = Len(d.total_functions)
            /\ Len(d.total_functions) = Len(functions)
            /\ Len(d.total_parameters) =
                   SumSeq([i \in 1..Len(functions) |-> counted(functions[i])])
            /\ Len(d.annotated_parameters) =
                   SumSeq([i \in 1..Len(functions) |-> annotated(functions[i])])

C14_Witness ==
    /\ a_pc = "collected"
    /\ Len(functions) = 2
    /\ functions[1].is_method_or_classmethod
    /\ Len(functions[1].parameters) = 1 /\ functions[1].parameters[1].is_annotated
    /\ ~functions[2].is_method_or_classmethod
    /\ Len(functions[2].parameters) = 2
    /\ Len(data[1].total_parameters) = 2
    /\ Len(data[1].annotated_parameters) = 1
    /\ Len(data[1].total_returns) = 2

----------------------------------------------------------------------------
(* get_paths_to_collect.  pathlib keeps ".." components as they are and    *)
(* compares paths component by component.                                  *)

\* Path.is_absolute
is_absolute(path) == path.absolute

\* Path.cwd() / path, for a relative path
Joined(cwd, path) == Path(TRUE, cwd.parts \o path.parts)

\* faulty variant: the path counts among its own parents
parents_with_self(path) ==
    {Path(path.absolute, SubSeq(path.parts, 1, k)) : k \in 0..Len(path.parts)}

\* Path.parents: the logical ancestors of a path
parents(path) ==
    {Path(path.absolute, SubSeq(path.parts, 1, k)) : k \in 0..(Len(path.parts) - 1)}

\* faulty variant: an empty sequence counts as no paths
paths_is_None_or_empty(paths) == paths = None \/ paths = Some(<<>>)

\* paths is None
paths_is_None(paths) == paths = None

\* faulty variant: the element is appended whether present or not
set_add_append(s, x) == Append(s, x)

\* set.add, the set kept as the sequence of its distinct elements
set_add(s, x) == IF \E i \in 1..Len(s) : s[i] = x THEN s ELSE Append(s, x)

Root == Path(TRUE, << <<"p">> >>)

WorkingDirectories ==
    { Root, Path(TRUE, << <<"p">>, <<"a">> >>), Path(TRUE, << <<"o">> >>) }

GivenPaths ==
    { Path(FALSE, << <<"a">> >>),
      Path(FALSE, << <<"a">>, <<"b", ".py">> >>),
      Path(FALSE, << <<"..">>, <<"o">> >>),
      Root,
      Path(TRUE, << <<"p">>, <<"a">> >>),
      Path(TRUE, << <<"p">>, <<"a">>, <<"b", ".py">> >>),
      Path(TRUE, << <<"o">> >>),
      Path(TRUE, << <<"p">>, <<"a">>, <<"..">>, <<"..">>, <<"o">> >>) }

\* get_paths_to_collect(paths, root) is called in some working directory
InitPaths ==
    /\ g_paths \in {None} \cup
                   {Some(ps) : ps \in UNION {[1..n -> GivenPaths] : n \in 0..MaxPaths}}
    /\ g_root = Root
    /\ g_cwd \in WorkingDirectories
    /\ g_i = 0
    /\ absolute_paths = <<>>
    /\ g_pc = "called"
    /\ g_result = None
    /\ KindIdle /\ StrictIdle /\ SuppIdle /\ AnnIdle /\ FindIdle /\ TreeIdle

\* if paths is None: return [root]; else: absolute_paths = set()
get_paths_to_collect_enter ==
    /\ g_pc = "called"
    /\ IF paths_is_None(g_paths)
       THEN /\ g_result' = Some(<<g_root>>)
            /\ g_pc' = "returned"
            /\ UNCHANGED <<g_i, absolute_paths>>
       ELSE /\ absolute_paths' = <<>>
            /\ g_i' = 1
            /\ g_pc' = "loop"
            /\ UNCHANGED g_result
    /\ UNCHANGED <<g_paths, g_root, g_cwd,
                   kind_vars, strict_vars, supp_vars, ann_vars, find_vars, tree_vars>>

\* one turn of `for path in paths`
get_paths_to_collect_iterate ==
    /\ g_pc = "loop"
    /\ g_i <= Len(g_paths[1])
    /\ LET path == g_paths[1][g_i]
           absolute_path == IF is_absolute(path) THEN path ELSE Joined(g_cwd, path)
       IN  IF g_root \notin parents(absolute_path)
           THEN /\ g_pc' = "raised"
                /\ UNCHANGED <<g_i, absolute_paths>>
           ELSE /\ absolute_paths' = set_add(absolute_paths, absolute_path)
                /\ g_i' = g_i + 1
                /\ UNCHANGED g_pc
    /\ UNCHANGED <<g_paths, g_root, g_cwd, g_result,
                   kind_vars, strict_vars, supp_vars, ann_vars, find_vars, tree_vars>>

\* return absolute_paths
get_paths_to_collect_return ==
    /\ g_pc = "loop"
    /\ g_i > Len(g_paths[1])
    /\ g_result' = Some(absolute_paths)
    /\ g_pc' = "returned"
    /\ UNCHANGED <<g_paths, g_root, g_cwd, g_i, absolute_paths,
                   kind_vars, strict_vars, supp_vars, ann_vars, find_vars, tree_vars>>

NextPaths ==
    \/ get_paths_to_collect_enter
    \/ get_paths_to_collect_iterate
    \/ get_paths_to_collect_return

SpecPaths == InitPaths /\ [][NextPaths]_vars

\* C15 as stated: with paths None and with paths an empty sequence the call
\* returns exactly the root.
C15_UnsetOrEmptyGivesRoot ==
    (g_pc = "returned" /\ g_paths \in {None, Some(<<>>)}) =>
        g_result = Some(<<g_root>>)

\* C15: with paths None the call returns exactly the root; with paths an
\* empty sequence it returns an empty collection.
C15_NoneGivesRoot ==
    g_pc = "returned" =>
        /\ g_paths = None => g_result = Some(<<g_root>>)
        /\ g_paths = Some(<<>>) => g_result = Some(<<>>)

C15_Witness ==
    /\ g_pc = "returned"
    /\ g_paths = Some(<<>>)
    /\ g_result = Some(<<>>)

\* a path as written, made absolute against the working directory
AbsoluteForm(path) ==
    IF path.absolute THEN path.parts ELSE g_cwd.parts \o path.parts

\* the components of a path start with those of the root and go further
NestedUnderRoot(parts) ==
    /\ Len(parts) > Len(g_root.parts)
    /\ SubSeq(parts, 1, Len(g_root.parts)) = g_root.parts

\* C16: the call with explicit paths fails at the first path whose absolute
\* form is not nested under the root, whatever the other paths are: it
\* never gets past such a path, never returns when there is one, and a
\* failed call returns nothing.
C16_OutsidePathFails ==
    g_paths # None =>
        /\ g_pc \in {"loop", "raised", "returned"} =>
               \A j \in 1..(g_i - 1) : NestedUnderRoot(AbsoluteForm(g_paths[1][j]))
        /\ g_pc = "raised" =>
               /\ ~NestedUnderRoot(AbsoluteForm(g_paths[1][g_i]))
               /\ g_result = None
        /\ g_pc = "returned" =>
               \A j \in 1..Len(g_paths[1]) : NestedUnderRoot(AbsoluteForm(g_paths[1][j]))

C16_Witness ==
    /\ g_pc = "raised"
    /\ g_cwd = Root
    /\ g_paths = Some(<<Path(FALSE, << <<"a">> >>), Path(TRUE, << <<"o">> >>)>>)
    /\ g_i = 2
    /\ g_result = None

\* C17: a call with explicit paths that returns holds every distinct
\* absolute form of a given path exactly once and nothing else, so a path
\* given twice, or given relative and absolute, has one entry and the order
\* of the paths does not show in the result.
C17_Deduplicated ==
    (g_pc = "returned" /\ g_paths # None) =>
        LET result == g_result[1]
        IN  /\ \A i, j \in 1..Len(result) : i # j => result[i] # result[j]
            /\ {result[i].parts : i \in 1..Len(result)} =
                   {AbsoluteForm(g_paths[1][i]) : i \in 1..Len(g_paths[1])}
            /\ \A i \in 1..Len(result) : result[i].absolute

C17_Witness ==
    /\ g_pc = "returned"
    /\ g_cwd = Root
    /\ g_paths = Some(<<Path(TRUE, << <<"p">>, <<"a">> >>), Path(FALSE, << <<"a">> >>)>>)
    /\ g_result = Some(<<Path(TRUE, << <<"p">>, <<"a">> >>)>>)

----------------------------------------------------------------------------
(* find_module_paths over a small file tree                                *)

P(parts) == Path(TRUE, parts)

Directories ==
    { P(<< <<"p">> >>),
      P(<< <<"p">>, <<"b">> >>),
      P(<< <<"p">>, <<"b">>, <<"c">> >>),
      P(<< <<"p">>, <<"e", ".py">> >>) }

Files ==
    { P(<< <<"p">>, <<"s0", ".py">> >>),
      P(<< <<"p">>, <<"b">>, <<"s2", ".py">> >>),
      P(<< <<"p">>, <<"b">>, <<"s4", ".txt">> >>),
      P(<< <<"p">>, <<"b">>, <<"__", "s5", ".py">> >>),
      P(<< <<"p">>, <<"b">>, <<".", "h", ".py">> >>),
      P(<< <<"p">>, <<"b">>, <<"c">>, <<"s3", ".py">> >>) }

\* the entries of the tree in the order a directory scan gives them
Entries ==
    << P(<< <<"p">> >>),
       P(<< <<"p">>, <<"s0", ".py">> >>),
       P(<< <<"p">>, <<"b">> >>),
       P(<< <<"p">>, <<"b">>, <<"s2", ".py">> >>),
       P(<< <<"p">>, <<"b">>, <<"s4", ".txt">> >>),
       P(<< <<"p">>, <<"b">>, <<"__", "s5", ".py">> >>),
       P(<< <<"p">>, <<"b">>, <<".", "h", ".py">> >>),
       P(<< <<"p">>, <<"b">>, <<"c">> >>),
       P(<< <<"p">>, <<"b">>, <<"c">>, <<"s3", ".py">> >>),
       P(<< <<"p">>, <<"e", ".py">> >>) >>

\* the pieces of a name that are a dot followed by an extension
Suffixes == {".py", ".txt"}

\* Path.name
name(path) == path.parts[Len(path.parts)]

\* Path.suffix: the last extension of the name, none for a name that is
\* nothing but a dot and an extension
suffix(path) ==
    LET n == name(path)
    IN  IF Len(n) >= 2 /\ n[Len(n)] \in Suffixes THEN n[Len(n)] ELSE ""

\* str.startswith, for the prefixes "__" and "."
startswith(n, prefix) ==
    /\ n # <<>>
    /\ \/ n[1] = prefix
       \/ prefix = "." /\ n[1] \in Suffixes

RECURSIVE path_str(_)
\* str(path) of an absolute path, as the sequence of its pieces
path_str(parts) ==
    IF parts = <<>> THEN <<>>
    ELSE <<"/">> \o Head(parts) \o path_str(Tail(parts))

\* a pattern is a sequence of ".*", "(" and literal pieces; one with a "("
\* does not compile, there being no ")"
pattern_is_malformed(pattern) == \E i \in 1..Len(pattern) : pattern[i] = "("

RECURSIVE Matches(_, _)
\* the pattern matches a prefix of the string
Matches(pattern, string) ==
    IF pattern = <<>> THEN TRUE
    ELSE IF Head(pattern) = ".*"
         THEN \E k \in 0..Len(string) :
                  Matches(Tail(pattern), SubSeq(string, k + 1, Len(string)))
         ELSE /\ string # <<>>
              /\ Head(string) = Head(pattern)
              /\ Matches(Tail(pattern), Tail(string))

\* re.match(exclude_pattern, str(path)): re.error, a match object or None
re_match(pattern, string) ==
    IF pattern_is_malformed(pattern) THEN "error"
    ELSE IF Matches(pattern, string) THEN "match" ELSE "none"

_is_excluded(path, excludes) ==
    LET results == [i \in 1..Len(excludes) |->
                       re_match(excludes[i], path_str(path.parts))]
    IN  IF \E i \in 1..Len(excludes) : results[i] = "error"
        THEN FALSE
        ELSE \E i \in 1..Len(excludes) : results[i] = "match"

_should_ignore(path, excludes) ==
    \/ suffix(path) # ".py"
    \/ startswith(name(path), "__")
    \/ startswith(name(path), ".")
    \/ _is_excluded(path, excludes)

\* Path.is_dir
is_dir(path) == path \in Directories

\* the entry lies beneath the directory
Beneath(entry, directory) ==
    /\ Len(entry.parts) > Len(directory.parts)
    /\ SubSeq(entry.parts, 1, Len(directory.parts)) = directory.parts

\* target_directory.glob("**/*.py"): the entries beneath the directory, of
\* either kind, whose name ends in .py
glob(target_directory) ==
    SelectSeq(Entries, LAMBDA e : /\ Beneath(e, target_directory)
                                   /\ name(e)[Len(name(e))] = ".py")

_get_paths_for_file(target_file, excludes) ==
    IF ~_should_ignore(target_file, excludes) THEN <<target_file>> ELSE <<>>

_get_paths_in_directory(target_directory, excludes) ==
    SelectSeq(glob(target_directory), LAMBDA path : ~_should_ignore(path, excludes))

FindInputs ==
    { P(<< <<"p">> >>),
      P(<< <<"p">>, <<"b">> >>),
      P(<< <<"p">>, <<"s0", ".py">> >>),
      P(<< <<"p">>, <<"b">>, <<"s2", ".py">> >>),
      P(<< <<"p">>, <<"b">>, <<"s4", ".txt">> >>),
      P(<< <<"p">>, <<"m", ".py">> >>) }

\* r".*s2\.py", r"/p/b", r"b" and r"("
Patterns ==
    { <<".*", "s2", ".py">>,
      <<"/", "p", "/", "b">>,
      <<"b">>,
      <<"(">> }

\* find_module_paths(paths, excludes) is called and its result is consumed
InitFind ==
    /\ f_paths \in UNION {[1..n -> FindInputs] : n \in 0..MaxFindPaths}
    /\ f_excludes \in UNION {[1..n -> Patterns] : n \in 0..MaxExcludes}
    /\ f_i = 0
    /\ f_pc = "called"
    /\ f_result = <<>>
    /\ KindIdle /\ StrictIdle /\ SuppIdle /\ AnnIdle /\ PathIdle /\ TreeIdle

\* itertools.chain.from_iterable takes the next of paths and yields what it
\* expands to
find_module_paths_next ==
    /\ f_pc = "called"
    /\ f_i < Len(f_paths)
    /\ LET path == f_paths[f_i + 1]
       IN  f_result' = f_result \o
               (IF ~is_dir(path)
                THEN _get_paths_for_file(path, f_excludes)
                ELSE _get_paths_in_directory(path, f_excludes))
    /\ f_i' = f_i + 1
    /\ UNCHANGED <<f_paths, f_excludes, f_pc,
                   kind_vars, strict_vars, supp_vars, ann_vars, path_vars, tree_vars>>

\* paths is exhausted
find_module_paths_exhausted ==
    /\ f_pc = "called"
    /\ f_i = Len(f_paths)
    /\ f_pc' = "done"
    /\ UNCHANGED <<f_paths, f_excludes, f_i, f_result,
                   kind_vars, strict_vars, supp_vars, ann_vars, path_vars, tree_vars>>

NextFind ==
    \/ find_module_paths_next
    \/ find_module_paths_exhausted

SpecFind == InitFind /\ [][NextFind]_vars

\* C18: whatever the inputs, a directory and a file beneath it included, no
\* path is yielded more than once.
C18_NoDuplicates ==
    f_pc = "done" =>
        \A i, j \in 1..Len(f_result) : i # j => f_result[i] # f_result[j]

\* some pattern of excludes that compiles matches the path from its start
ExcludedByWellFormed(path) ==
    \E i \in 1..Len(f_excludes) :
        /\ ~pattern_is_malformed(f_excludes[i])
        /\ Matches(f_excludes[i], path_str(path.parts))

\* _should_ignore as stated: not a .py suffix, a name starting with "__" or
\* ".", or some exclude pattern matching
IgnoredAsStated(path) ==
    \/ suffix(path) # ".py"
    \/ name(path)[1] \in {"__", "."}
    \/ ExcludedByWellFormed(path)

\* C19: the paths yielded are exactly the inputs that are no directory and
\* are not ignored, and the files beneath an input directory that have the
\* .py suffix and are not ignored.
C19_ExactResult ==
    f_pc = "done" =>
        {f_result[i] : i \in 1..Len(f_result)} =
            {path \in {f_paths[i] : i \in 1..Len(f_paths)} :
                 ~is_dir(path) /\ ~IgnoredAsStated(path)}
            \cup
            {file \in Files :
                 /\ \E i \in 1..Len(f_paths) :
                        is_dir(f_paths[i]) /\ Beneath(file, f_paths[i])
                 /\ suffix(file) = ".py"
                 /\ ~IgnoredAsStated(file)}

\* C20: a pattern that does not compile is the only one left out: a path
\* matched by another pattern of excludes is never yielded, wherever the
\* malformed pattern stands.
C20_MalformedSkipped ==
    f_pc = "done" =>
        \A i \in 1..Len(f_result) : ~ExcludedByWellFormed(f_result[i])

----------------------------------------------------------------------------
(* get_paths_to_collect: the root itself, and paths with ".."              *)

RECURSIVE Resolved(_, _)
\* the location a sequence of components denotes: ".." leaves the directory
\* reached so far (and stays at the top of the tree)
Resolved(done, parts) ==
    IF parts = <<>> THEN done
    ELSE IF Head(parts) = <<"..">>
         THEN Resolved(SubSeq(done, 1, Len(done) - 1), Tail(parts))
         ELSE Resolved(Append(done, Head(parts)), Tail(parts))

\* C27: a call with explicit paths that returns holds only paths whose
\* location lies inside the subtree of the root, ".." components taken into
\* account.
C27_InsideRoot ==
    (g_pc = "returned" /\ g_paths # None) =>
        \A i \in 1..Len(g_result[1]) :
            NestedUnderRoot(Resolved(<<>>, g_result[1][i].parts))

\* C30: the root given as an explicit path is rejected, alone or among other
\* paths, while paths None gives the root: a returned path always has the
\* root as a strict ancestor.
C30_RootRejected ==
    /\ (g_paths # None /\ g_pc = "returned") =>
           /\ \A j \in 1..Len(g_paths[1]) : AbsoluteForm(g_paths[1][j]) # g_root.parts
           /\ \A i \in 1..Len(g_result[1]) : g_result[1][i] # g_root
    /\ (g_paths # None /\ g_pc = "loop" /\ g_i > 1) =>
           AbsoluteForm(g_paths[1][g_i - 1]) # g_root.parts
    /\ (g_paths = Some(<<g_root>>) /\ g_pc \in {"raised", "returned"}) =>
           g_pc = "raised" /\ g_result = None
    /\ (g_paths = None /\ g_pc = "returned") => g_result = Some(<<g_root>>)

C30_Witness ==
    /\ g_paths = Some(<<g_root>>)
    /\ g_pc = "raised"
    /\ g_i = 1
    /\ g_result = None

----------------------------------------------------------------------------
(* SuppressionCollector: directives inside longer comments                 *)

\* a fix-me or ignore directive with unrelated text and a further "#" before
\* it and free text after it, and the same directive alone in its comment
Surrounded(word) ==
    <<"#", " ", "x", " ", " ", " ", "#", " ", " ", word, "[", "7", "]", " ", "x">>

Alone(word) == <<"#", " ", word, "[", "7", "]">>

\* the comment with its directive left alone
PlainForm(value) ==
    IF value = Surrounded("pyre-fixme") THEN Alone("pyre-fixme")
    ELSE IF value = Surrounded("pyre-ignore") THEN Alone("pyre-ignore")
    ELSE value

RECURSIVE PlainSuppressions(_)
\* the suppressions of the module whose comments are put in plain form
PlainSuppressions(mod) ==
    IF mod = <<>> THEN <<>>
    ELSE PlainSuppressions(SubSeq(mod, 1, Len(mod) - 1)) \o
         suppression_from_comment(PlainForm(mod[Len(mod)].node.value), mod[Len(mod)].line)

\* C26: a module counts the same whether its fix-me and ignore directives
\* stand alone in their comments or have unrelated text and "#" before them
\* and free text after them; such a directive with code 7 on line n, the
\* only comment of its module, gives code = {7: [n]} and no_code = [].
C26_SurroundedDirective ==
    p_pc = "counted" =>
        /\ \A k \in CountedKinds :
               registry[1][k] = SuppressionCountCollector(k, PlainSuppressions(p_module))
        /\ \A k \in CountedKinds :
               (/\ Len(p_module) = 1
                /\ p_module[1].node.value \in
                       {Surrounded(SuppressionWord(k)[1]), Alone(SuppressionWord(k)[1])})
               => /\ registry[1][k].code = [c \in {7} |-> <<p_module[1].line>>]
                  /\ registry[1][k].no_code = <<>>

C26_Witness ==
    /\ p_pc = "counted"
    /\ Len(p_module) = 1
    /\ p_module[1].node.value = Surrounded("pyre-fixme")
    /\ p_module[1].line = 2
    /\ registry[1]["PYRE_FIXME"].code = [c \in {7} |-> <<2>>]
    /\ registry[1]["PYRE_FIXME"].no_code = <<>>

\* the places of a comment where the file-level marker is written
MarkerPlaces(value) ==
    {i \in 1..(Len(value) - 1) : value[i] = "pyre-ignore" /\ value[i + 1] = "-all-errors"}

\* the places of a comment where an ignore directive is written
IgnorePlaces(value) ==
    {i \in 1..Len(value) : value[i] = "pyre-ignore"} \ MarkerPlaces(value)

\* the PYRE_IGNORE suppressions collected for a line
IgnoresOn(line) ==
    SelectSeq(suppressions, LAMBDA d : d.kind = "PYRE_IGNORE" /\ d.line = line)

\* C29 as stated: every comment holding the file-level marker gives a
\* PYRE_IGNORE suppression whose error_codes is None.
C29_MarkerAlwaysNone ==
    p_pc \in {"visited", "collected", "counted"} =>
        \A m \in 1..Len(p_module) :
            MarkerPlaces(p_module[m].node.value) # {} =>
                /\ Len(IgnoresOn(p_module[m].line)) = 1
                /\ IgnoresOn(p_module[m].line)[1].error_codes = None

\* C29: every comment holding the file-level marker gives one PYRE_IGNORE
\* suppression; its error_codes is None, with or without a code list after
\* the marker, unless an ignore directive is written after the marker in the
\* same comment, which then decides the codes.
C29_MarkerNoneUnlessFollowed ==
    p_pc \in {"visited", "collected", "counted"} =>
        \A m \in 1..Len(p_module) :
            LET value == p_module[m].node.value
                followed == \E i \in MarkerPlaces(value), j \in IgnorePlaces(value) : j > i
            IN  MarkerPlaces(value) # {} =>
                    /\ Len(IgnoresOn(p_module[m].line)) = 1
                    /\ ~followed => IgnoresOn(p_module[m].line)[1].error_codes = None
                    /\ followed => IgnoresOn(p_module[m].line)[1].error_codes = Some(<<3>>)

C29_Witness ==
    /\ p_pc = "collected"
    /\ Len(p_module) = 2
    /\ p_module[1].node.value = <<"#", " ", "pyre-ignore", "-all-errors", "[", "5", "]">>
    /\ p_module[2].node.value = <<"#", " ", "pyre-ignore", "-all-errors">>
    /\ suppressions = <<[kind |-> "PYRE_IGNORE", line |-> 1, error_codes |-> None],
                        [kind |-> "PYRE_IGNORE", line |-> 3, error_codes |-> None]>>

----------------------------------------------------------------------------
(* AnnotationCollector: static methods, assignments outside functions, the *)
(* context against the open nodes, kinds against counts                    *)

\* C22: a function defined in a class body is recorded as no method when it
\* has the plain-name decorator staticmethod, and as a method with any other
\* decorator or none; with an annotated return and parameters (unannotated,
\* annotated) it is PARTIALLY_ANNOTATED when static and FULLY_ANNOTATED
\* otherwise, and its first parameter is counted only when static.
C22_StaticMethod ==
    [][(/\ a_last' = "visit_FunctionDef" /\ a_line' = a_line + 1
        /\ a_stack # <<>> /\ a_stack[Len(a_stack)].type = "ClassDef")
       => LET node == a_stack'[Len(a_stack')]
              fact == functions'[Len(functions')]
              static == \E i \in 1..Len(node.decorators) :
                            node.decorators[i] = Name("staticmethod")
          IN  /\ fact.is_method_or_classmethod <=> ~static
              /\ (node.returns /\ node.params = <<FALSE, TRUE>>) =>
                     fact.annotation_kind =
                         IF static THEN "PARTIALLY_ANNOTATED" ELSE "FULLY_ANNOTATED"
              /\ Len(non_self_cls_parameters(fact)) =
                     IF static \/ node.params = <<>>
                     THEN Len(node.params) ELSE Len(node.params) - 1]_vars

\* some class definition is among the open nodes
InsideClass(stack) == \E i \in 1..Len(stack) : stack[i].type = "ClassDef"

LinesIncrease(facts) ==
    \A i, j \in 1..Len(facts) : i < j => facts[i].code_range < facts[j].code_range

\* C23: an assignment visited outside every function body adds exactly one
\* fact, for its line, to attributes when a class is open and to globals
\* otherwise, and leaves the other list as it is; no line is in both lists
\* or twice in one, and each list is in traversal order.
C23_OneFactOneList ==
    [][(/\ a_last' \in {"visit_Assign", "visit_AnnAssign"}
        /\ a_line' = a_line + 1
        /\ ~InsideFunction(a_stack))
       => /\ IF InsideClass(a_stack)
             THEN /\ Len(attributes') = Len(attributes) + 1
                  /\ SubSeq(attributes', 1, Len(attributes)) = attributes
                  /\ attributes'[Len(attributes')].code_range = a_line'
                  /\ globals' = globals
             ELSE /\ Len(globals') = Len(globals) + 1
                  /\ SubSeq(globals', 1, Len(globals)) = globals
                  /\ globals'[Len(globals')].code_range = a_line'
                  /\ attributes' = attributes
          /\ LinesIncrease(globals') /\ LinesIncrease(attributes')
          /\ {globals'[i].code_range : i \in 1..Len(globals')}
                 \cap {attributes'[i].code_range : i \in 1..Len(attributes')} = {}]_vars

C23_Witness ==
    /\ a_last = "visit_Assign"
    /\ a_line = 3
    /\ Len(a_stack) = 1 /\ a_stack[1].type = "ClassDef"
    /\ Len(globals) = 1 /\ globals[1].code_range = 1
    /\ Len(attributes) = 1 /\ attributes[1].code_range = 3

\* the open nodes of a type
OpenOf(stack, type) == SelectSeq(stack, LAMBDA node : node.type = type)

\* C24: at every point of the traversal the context is given by the open
\* nodes alone: the class-name stack holds the names of the open classes,
\* the define depth counts the open functions and the static depth those
\* with a staticmethod decorator.  So leaving a construct restores the
\* context it was entered with, and after the module the stack is empty and
\* both depths are 0.
C24_SymmetricContext ==
    /\ context.class_name_stack =
           [i \in 1..Len(OpenOf(a_stack, "ClassDef")) |-> OpenOf(a_stack, "ClassDef")[i].name]
    /\ context.define_depth = Len(OpenOf(a_stack, "FunctionDef"))
    /\ context.static_define_depth =
           Len(SelectSeq(OpenOf(a_stack, "FunctionDef"),
                         LAMBDA node : \E i \in 1..Len(node.decorators) :
                                           node.decorators[i] = Name("staticmethod")))
    /\ a_pc \in {"left", "collected"} => context = AnnotationContextInit

C24_Witness ==
    /\ a_pc = "left"
    /\ a_line = 3
    /\ Len(functions) = 2
    /\ functions[1].returns.function_name = <<"A", "f">>
    /\ ~functions[1].is_method_or_classmethod
    /\ functions[2].returns.function_name = <<"A", "f">>
    /\ functions[2].is_method_or_classmethod
    /\ context = AnnotationContextInit

\* C28: a FULLY_ANNOTATED function fact has an annotated return and only
\* annotated parameters among those counted for it; a NOT_ANNOTATED one has
\* an unannotated return and no annotated parameter at all.  In a result
\* whose functions are all FULLY_ANNOTATED, the annotated parameters are all
\* the parameters, and the annotated returns, the returns, the functions
\* and the fully annotated functions are equally many.
C28_KindAgreesWithCounts ==
    /\ \A i \in 1..Len(functions) :
           LET f == functions[i]
           IN  /\ f.annotation_kind = "FULLY_ANNOTATED" =>
                      /\ f.returns.is_annotated
                      /\ \A p \in CountedPositions(f) : f.parameters[p].is_annotated
               /\ f.annotation_kind = "NOT_ANNOTATED" =>
                      /\ ~f.returns.is_annotated
                      /\ \A p \in 1..Len(f.parameters) : ~f.parameters[p].is_annotated
    /\ (/\ a_pc = "collected"
        /\ \A i \in 1..Len(functions) : functions[i].annotation_kind = "FULLY_ANNOTATED")
       => LET d == data[1]
          IN  /\ d.annotated_parameters = d.total_parameters
              /\ Len(d.annotated_returns) = Len(d.total_returns)
              /\ Len(d.total_returns) = Len(d.total_functions)
              /\ Len(d.total_functions) = Len(d.fully_annotated_functions)

C28_Witness ==
    /\ a_pc = "collected"
    /\ Len(functions) = 2
    /\ \A i \in 1..2 : functions[i].annotation_kind = "FULLY_ANNOTATED"
    /\ functions[1].is_method_or_classmethod
    /\ Len(functions[1].parameters) = 2 /\ ~functions[1].parameters[1].is_annotated
    /\ Len(data[1].total_parameters) = 1
    /\ Len(data[1].annotated_parameters) = 1
    /\ Len(data[1].fully_annotated_functions) = 2

----------------------------------------------------------------------------
(* One StrictCountCollector collecting several modules                     *)

\* collect is called on the instance again, with another module: nothing in
\* collect or in the visitor sets the fields back
StrictCountCollector_collect_again ==
    /\ s_pc = "collected"
    /\ Len(s_returned) < MaxModules - 1
    /\ s_returned' = Append(s_returned, s_result[1])
    /\ s_module' = <<>>
    /\ s_result' = None
    /\ s_pc' = "visit"
    /\ UNCHANGED <<strict_by_default, explicit_strict_comment_line,
                   explicit_unsafe_comment_line, strict_count, unsafe_count,
                   kind_vars, supp_vars, ann_vars, path_vars, find_vars, tree_vars>>

NextReuse ==
    \/ StrictCountCollector_visit_Comment
    \/ StrictCountCollector_leave_Module
    \/ StrictCountCollector_collect
    \/ StrictCountCollector_collect_again

SpecReuse == InitStrict /\ [][NextReuse]_vars

RECURSIVE FreshLines(_)
\* the line fields of a new instance after the comments of a module
FreshLines(mod) ==
    IF mod = <<>> THEN <<None, None>>
    ELSE LET before == FreshLines(SubSeq(mod, 1, Len(mod) - 1))
             last == mod[Len(mod)]
         IN  strict_visit_Comment(before[1], before[2], last.node.value, last.line)

\* C25: the result of collect on a module is the one a new instance with
\* the same default gives for that module, whatever the instance collected
\* before.
C25_NoStateAcrossModules ==
    s_pc = "collected" =>
        s_result = Some(ModuleStrictData(FreshLines(s_module)[1],
                                         FreshLines(s_module)[2],
                                         strict_by_default))

----------------------------------------------------------------------------
(* Three visitors over one module: a new StrictCountCollector, a new        *)
(* SuppressionCollector and a new AnnotationCollector are called for the    *)
(* nodes of the same tree, each at its own pace, their callbacks            *)
(* interleaved in any order.                                                *)

MaxTreeEvents == 3

\* a Comment node of the tree; text is its value (an assignment's value is
\* a node class, a comment's is its text)
Comment(value) == [type |-> "Comment", text |-> value]

\* what the traversal does at a node: visit it, or leave it
Event(event, node) == [event |-> event, node |-> node]

SharedFunctionDef ==
    [type |-> "FunctionDef", name |-> "f", decorators |-> <<>>,
     returns |-> TRUE, params |-> <<FALSE, TRUE>>]

\* the events of a module's body: comments (one that no visitor reacts to
\* alone: the file-level marker moves StrictCountCollector and
\* SuppressionCollector both), an assignment, a class, a function
TreeEvents ==
    { Event("visit", Comment(<<"#", " ", "pyre-unsafe">>)),
      Event("visit", Comment(<<"#", " ">> \o IgnoreAll)),
      Event("visit", Comment(<<"#", " ", "pyre-fixme", "[", "3", "]">>)),
      Event("visit", [type |-> "Assign", value |-> "Name"]),
      Event("visit", [type |-> "ClassDef", name |-> "A"]),
      Event("leave", [type |-> "ClassDef", name |-> "A"]),
      Event("visit", SharedFunctionDef),
      Event("leave", SharedFunctionDef) }

Unbalanced == <<[type |-> "unbalanced"]>>

RECURSIVE OpenAfter(_, _)
\* the definitions open after the first n events, innermost last
OpenAfter(tree, n) ==
    IF n = 0 THEN <<>>
    ELSE LET open == OpenAfter(tree, n - 1)
             e == tree[n]
         IN  IF open = Unbalanced THEN Unbalanced
             ELSE IF e.event = "leave"
                  THEN IF open # <<>> /\ open[Len(open)] = e.node
                       THEN SubSeq(open, 1, Len(open) - 1)
                       ELSE Unbalanced
                  ELSE IF e.node.type \in {"ClassDef", "FunctionDef"}
                       THEN Append(open, e.node)
                       ELSE open

\* the module node the traversal leaves last
ModuleNode(lines, trailing_newline) ==
    [type |-> "Module", lines |-> lines, has_trailing_newline |-> trailing_newline]

\* the modules: a body in which every definition entered is left, then the
\* module itself is left; an event on position n is on line n
Trees ==
    { body \o <<Event("leave", ModuleNode(IF Len(body) = 0 THEN 1 ELSE Len(body), nl))>> :
        body \in { b \in UNION { [1..n -> TreeEvents] : n \in 0..MaxTreeEvents } :
                     OpenAfter(b, Len(b)) = <<>> },
        nl \in BOOLEAN }

\* faulty variant: the callback hands back another node for the one visited
tree_after_callback_replaced(tree, n) ==
    [tree EXCEPT ![n] = Event(tree[n].event, Comment(<<"#", " ", "x">>))]

\* the tree after a callback of a libcst.CSTVisitor for its n-th node: the
\* callbacks return None, the traversal keeps the node
tree_after_callback(tree, n) == tree

\* the fields of a StrictCountCollector
StrictCollectorFields(strict_line, unsafe_line, n_strict, n_unsafe) ==
    [explicit_strict_comment_line |-> strict_line,
     explicit_unsafe_comment_line |-> unsafe_line,
     strict_count |-> n_strict,
     unsafe_count |-> n_unsafe]

\* the callback of StrictCountCollector the traversal calls for an event, on
\* the fields of the instance
StrictCountCollector_callback(self, e, line, default) ==
    IF e.event = "visit" /\ e.node.type = "Comment"
    THEN LET lines == strict_visit_Comment(self.explicit_strict_comment_line,
                                           self.explicit_unsafe_comment_line,
                                           e.node.text, line)
         IN  [self EXCEPT !.explicit_strict_comment_line = lines[1],
                          !.explicit_unsafe_comment_line = lines[2]]
    ELSE IF e.event = "leave" /\ e.node.type = "Module"
         THEN IF is_unsafe_module(self.explicit_strict_comment_line,
                                  self.explicit_unsafe_comment_line, default)
              THEN [self EXCEPT !.unsafe_count = @ + 1]
              ELSE [self EXCEPT !.strict_count = @ + 1]
         ELSE self

\* the callback of SuppressionCollector for an event, on its suppressions
SuppressionCollector_callback(self, e, line) ==
    IF e.event = "visit" /\ e.node.type = "Comment"
    THEN self \o suppression_from_comment(e.node.text, line)
    ELSE self

\* the fields of an AnnotationCollector
AnnotationCollectorFields(ctx, gs, as, fs, lc) ==
    [context |-> ctx, globals |-> gs, attributes |-> as, functions |-> fs,
     line_count |-> lc]

\* the callback of AnnotationCollector for an event, on the fields of the
\* instance
AnnotationCollector_callback(self, e, line) ==
    LET node == e.node
    IN  IF e.event = "visit" /\ node.type = "ClassDef"
        THEN [self EXCEPT !.context = update_for_enter_class(@, node)]
        ELSE IF e.event = "leave" /\ node.type = "ClassDef"
        THEN [self EXCEPT !.context = update_for_exit_class(@)]
        ELSE IF e.event = "visit" /\ node.type = "FunctionDef"
        THEN [self EXCEPT !.context = update_for_enter_define(@, node),
                          !.functions = Append(@, FunctionAnnotationInfo(self.context,
                                                                         node, line))]
        ELSE IF e.event = "leave" /\ node.type = "FunctionDef"
        THEN [self EXCEPT !.context = update_for_exit_define(@, node)]
        ELSE IF e.event = "visit" /\ node.type = "Assign"
        THEN IF assignments_are_function_local(self.context)
             THEN self
             ELSE LET fact == AnnotationInfo(node,
                                             implicitly_annotated_literal(node.value)
                                                 \/ implicitly_annotated_value(node.value),
                                             line)
                  IN  IF assignments_are_class_level(self.context)
                      THEN [self EXCEPT !.attributes = Append(@, fact)]
                      ELSE [self EXCEPT !.globals = Append(@, fact)]
        ELSE IF e.event = "leave" /\ node.type = "Module"
        THEN [self EXCEPT !.line_count =
                  leave_Module_line_count(ModuleEndLine(node.lines),
                                          node.has_trailing_newline)]
        ELSE self

\* one module handed to a new instance of each of the three visitors
InitShared ==
    /\ t_parsed \in Trees
    /\ t_module = t_parsed
    /\ t_at = [v \in Visitors |-> 0]
    /\ strict_by_default \in BOOLEAN
    /\ StrictFields
    /\ s_module = <<>>
    /\ s_returned = <<>>
    /\ s_pc = "idle"
    /\ s_result = None
    /\ KindIdle /\ SuppIdle /\ AnnIdle /\ PathIdle /\ FindIdle

\* module.visit(self) of the StrictCountCollector reaches its next node
Shared_StrictCountCollector ==
    /\ t_at["StrictCountCollector"] < Len(t_module)
    /\ LET n == t_at["StrictCountCollector"] + 1
           self == StrictCountCollector_callback(
                       StrictCollectorFields(explicit_strict_comment_line,
                                             explicit_unsafe_comment_line,
                                             strict_count, unsafe_count),
                       t_module[n], n, strict_by_default)
       IN  /\ explicit_strict_comment_line' = self.explicit_strict_comment_line
           /\ explicit_unsafe_comment_line' = self.explicit_unsafe_comment_line
           /\ strict_count' = self.strict_count
           /\ unsafe_count' = self.unsafe_count
           /\ t_at' = [t_at EXCEPT !["StrictCountCollector"] = n]
           /\ t_module' = tree_after_callback(t_module, n)
    /\ UNCHANGED <<t_parsed, strict_by_default, s_module, s_returned, s_pc, s_result,
                   kind_vars, supp_vars, ann_vars, path_vars, find_vars>>

\* module.visit(self) of the SuppressionCollector reaches its next node
Shared_SuppressionCollector ==
    /\ t_at["SuppressionCollector"] < Len(t_module)
    /\ LET n == t_at["SuppressionCollector"] + 1
       IN  /\ suppressions' = SuppressionCollector_callback(suppressions, t_module[n], n)
           /\ t_at' = [t_at EXCEPT !["SuppressionCollector"] = n]
           /\ t_module' = tree_after_callback(t_module, n)
    /\ UNCHANGED <<t_parsed, p_node, p_line, p_module, p_pc, registry,
                   kind_vars, strict_vars, ann_vars, path_vars, find_vars>>

\* module.visit(self) of the AnnotationCollector reaches its next node
Shared_AnnotationCollector ==
    /\ t_at["AnnotationCollector"] < Len(t_module)
    /\ LET n == t_at["AnnotationCollector"] + 1
           self == AnnotationCollector_callback(
                       AnnotationCollectorFields(context, globals, attributes,
                                                 functions, line_count),
                       t_module[n], n)
       IN  /\ context' = self.context
           /\ globals' = self.globals
           /\ attributes' = self.attributes
           /\ functions' = self.functions
           /\ line_count' = self.line_count
           /\ t_at' = [t_at EXCEPT !["AnnotationCollector"] = n]
           /\ t_module' = tree_after_callback(t_module, n)
    /\ UNCHANGED <<t_parsed, a_stack, a_line, a_last, src_lines, has_trailing_newline,
                   a_pc, data,
                   kind_vars, strict_vars, supp_vars, path_vars, find_vars>>

NextShared ==
    \/ Shared_StrictCountCollector
    \/ Shared_SuppressionCollector
    \/ Shared_AnnotationCollector

SpecShared == InitShared /\ [][NextShared]_vars

RECURSIVE StrictCountCollector_alone(_, _, _)
\* the fields of a StrictCountCollector that has run alone over the first n
\* events of a module
StrictCountCollector_alone(tree, n, default) ==
    IF n = 0 THEN StrictCollectorFields(None, None, 0, 0)
    ELSE StrictCountCollector_callback(StrictCountCollector_alone(tree, n - 1, default),
                                       tree[n], n, default)

RECURSIVE SuppressionCollector_alone(_, _)
SuppressionCollector_alone(tree, n) ==
    IF n = 0 THEN <<>>
    ELSE SuppressionCollector_callback(SuppressionCollector_alone(tree, n - 1), tree[n], n)

RECURSIVE AnnotationCollector_alone(_, _)
AnnotationCollector_alone(tree, n) ==
    IF n = 0 THEN AnnotationCollectorFields(AnnotationContextInit, <<>>, <<>>, <<>>, 0)
    ELSE AnnotationCollector_callback(AnnotationCollector_alone(tree, n - 1), tree[n], n)

\* every visitor holds what it holds when it runs alone over the nodes of
\* the parsed module it has been called for
AsAlone ==
    /\ StrictCollectorFields(explicit_strict_comment_line, explicit_unsafe_comment_line,
                             strict_count, unsafe_count)
         = StrictCountCollector_alone(t_parsed, t_at["StrictCountCollector"],
                                      strict_by_default)
    /\ suppressions = SuppressionCollector_alone(t_parsed, t_at["SuppressionCollector"])
    /\ AnnotationCollectorFields(context, globals, attributes, functions, line_count)
         = AnnotationCollector_alone(t_parsed, t_at["AnnotationCollector"])

====
